---------------------------- MODULE Spec2Model ----------------------------
(***************************************************************************)
(* CRC-32C checksum engine of AFD (src/common/get_checksum_crc32c.c):      *)
(* get_checksum_crc32c, get_str_checksum_crc32c, get_file_checksum_crc32c. *)
(*                                                                         *)
(* A 32-bit unsigned value is a tuple of four bytes, least significant     *)
(* first: <<b0, b1, b2, b3>> stands for b0 + 2^8 b1 + 2^16 b2 + 2^24 b3.   *)
(* Memory is a sequence of bytes; a pointer is a buffer together with its  *)
(* address, of which only the value modulo 4 is ever used by the code.     *)
(***************************************************************************)
EXTENDS Integers, Sequences, FiniteSets, TLC

(***************************************************************************)
(* 32-bit unsigned arithmetic as the C operators compute it.               *)
(***************************************************************************)

\* 0xXXXXYYYY as a 32-bit value, from its two 16-bit halves.
U32(hi, lo) == <<lo % 256, lo \div 256, hi % 256, hi \div 256>>

\* a ^ b on the low n bits of two non-negative integers.
RECURSIVE XorBits(_, _, _)
XorBits(a, b, n) ==
  IF n = 0 THEN 0
  ELSE ((a + b) % 2) + 2 * XorBits(a \div 2, b \div 2, n - 1)

\* a ^ b on bytes, tabulated once.
XorByteTable == [a \in 0..255 |-> [b \in 0..255 |-> XorBits(a, b, 8)]]

\* v ^ w on 32-bit values.
Xor(v, w) ==
  <<XorByteTable[v[1]][w[1]], XorByteTable[v[2]][w[2]],
    XorByteTable[v[3]][w[3]], XorByteTable[v[4]][w[4]]>>

\* v >> 8, v >> 16 and v >> 1 on 32-bit unsigned values.
Shr8(v) == <<v[2], v[3], v[4], 0>>

Shr16(v) == <<v[3], v[4], 0, 0>>

Shr1(v) ==
  <<(v[1] \div 2) + 128 * (v[2] % 2), (v[2] \div 2) + 128 * (v[3] % 2),
    (v[3] \div 2) + 128 * (v[4] % 2), v[4] \div 2>>

\* v & 0x000000FF, as an array index.
LowByte(v) == v[1]

\* The integer promotion of a char read through `char *mem': char is signed
\* on the x86 targets of the hardware path, so bytes >= 0x80 sign-extend.
CharToInt(b) == IF b >= 128 THEN <<b, 255, 255, 255>> ELSE <<b, 0, 0, 0>>

(***************************************************************************)
(* The eight lookup tables, entry for entry as in the source.              *)
(***************************************************************************)

\* crc_tableil8_o32[256], lines 75-141; U32(\hXXXX, \hYYYY) is 0xXXXXYYYY.
crc_tableil8_o32 ==
  <<
    U32(\h0000, \h0000), U32(\hF26B, \h8303), U32(\hE13B, \h70F7), U32(\h1350, \hF3F4),
    U32(\hC79A, \h971F), U32(\h35F1, \h141C), U32(\h26A1, \hE7E8), U32(\hD4CA, \h64EB),
    U32(\h8AD9, \h58CF), U32(\h78B2, \hDBCC), U32(\h6BE2, \h2838), U32(\h9989, \hAB3B),
    U32(\h4D43, \hCFD0), U32(\hBF28, \h4CD3), U32(\hAC78, \hBF27), U32(\h5E13, \h3C24),
    U32(\h105E, \hC76F), U32(\hE235, \h446C), U32(\hF165, \hB798), U32(\h030E, \h349B),
    U32(\hD7C4, \h5070), U32(\h25AF, \hD373), U32(\h36FF, \h2087), U32(\hC494, \hA384),
    U32(\h9A87, \h9FA0), U32(\h68EC, \h1CA3), U32(\h7BBC, \hEF57), U32(\h89D7, \h6C54),
    U32(\h5D1D, \h08BF), U32(\hAF76, \h8BBC), U32(\hBC26, \h7848), U32(\h4E4D, \hFB4B),
    U32(\h20BD, \h8EDE), U32(\hD2D6, \h0DDD), U32(\hC186, \hFE29), U32(\h33ED, \h7D2A),
    U32(\hE727, \h19C1), U32(\h154C, \h9AC2), U32(\h061C, \h6936), U32(\hF477, \hEA35),
    U32(\hAA64, \hD611), U32(\h580F, \h5512), U32(\h4B5F, \hA6E6), U32(\hB934, \h25E5),
    U32(\h6DFE, \h410E), U32(\h9F95, \hC20D), U32(\h8CC5, \h31F9), U32(\h7EAE, \hB2FA),
    U32(\h30E3, \h49B1), U32(\hC288, \hCAB2), U32(\hD1D8, \h3946), U32(\h23B3, \hBA45),
    U32(\hF779, \hDEAE), U32(\h0512, \h5DAD), U32(\h1642, \hAE59), U32(\hE429, \h2D5A),
    U32(\hBA3A, \h117E), U32(\h4851, \h927D), U32(\h5B01, \h6189), U32(\hA96A, \hE28A),
    U32(\h7DA0, \h8661), U32(\h8FCB, \h0562), U32(\h9C9B, \hF696), U32(\h6EF0, \h7595),
    U32(\h417B, \h1DBC), U32(\hB310, \h9EBF), U32(\hA040, \h6D4B), U32(\h522B, \hEE48),
    U32(\h86E1, \h8AA3), U32(\h748A, \h09A0), U32(\h67DA, \hFA54), U32(\h95B1, \h7957),
    U32(\hCBA2, \h4573), U32(\h39C9, \hC670), U32(\h2A99, \h3584), U32(\hD8F2, \hB687),
    U32(\h0C38, \hD26C), U32(\hFE53, \h516F), U32(\hED03, \hA29B), U32(\h1F68, \h2198),
    U32(\h5125, \hDAD3), U32(\hA34E, \h59D0), U32(\hB01E, \hAA24), U32(\h4275, \h2927),
    U32(\h96BF, \h4DCC), U32(\h64D4, \hCECF), U32(\h7784, \h3D3B), U32(\h85EF, \hBE38),
    U32(\hDBFC, \h821C), U32(\h2997, \h011F), U32(\h3AC7, \hF2EB), U32(\hC8AC, \h71E8),
    U32(\h1C66, \h1503), U32(\hEE0D, \h9600), U32(\hFD5D, \h65F4), U32(\h0F36, \hE6F7),
    U32(\h61C6, \h9362), U32(\h93AD, \h1061), U32(\h80FD, \hE395), U32(\h7296, \h6096),
    U32(\hA65C, \h047D), U32(\h5437, \h877E), U32(\h4767, \h748A), U32(\hB50C, \hF789),
    U32(\hEB1F, \hCBAD), U32(\h1974, \h48AE), U32(\h0A24, \hBB5A), U32(\hF84F, \h3859),
    U32(\h2C85, \h5CB2), U32(\hDEEE, \hDFB1), U32(\hCDBE, \h2C45), U32(\h3FD5, \hAF46),
    U32(\h7198, \h540D), U32(\h83F3, \hD70E), U32(\h90A3, \h24FA), U32(\h62C8, \hA7F9),
    U32(\hB602, \hC312), U32(\h4469, \h4011), U32(\h5739, \hB3E5), U32(\hA552, \h30E6),
    U32(\hFB41, \h0CC2), U32(\h092A, \h8FC1), U32(\h1A7A, \h7C35), U32(\hE811, \hFF36),
    U32(\h3CDB, \h9BDD), U32(\hCEB0, \h18DE), U32(\hDDE0, \hEB2A), U32(\h2F8B, \h6829),
    U32(\h82F6, \h3B78), U32(\h709D, \hB87B), U32(\h63CD, \h4B8F), U32(\h91A6, \hC88C),
    U32(\h456C, \hAC67), U32(\hB707, \h2F64), U32(\hA457, \hDC90), U32(\h563C, \h5F93),
    U32(\h082F, \h63B7), U32(\hFA44, \hE0B4), U32(\hE914, \h1340), U32(\h1B7F, \h9043),
    U32(\hCFB5, \hF4A8), U32(\h3DDE, \h77AB), U32(\h2E8E, \h845F), U32(\hDCE5, \h075C),
    U32(\h92A8, \hFC17), U32(\h60C3, \h7F14), U32(\h7393, \h8CE0), U32(\h81F8, \h0FE3),
    U32(\h5532, \h6B08), U32(\hA759, \hE80B), U32(\hB409, \h1BFF), U32(\h4662, \h98FC),
    U32(\h1871, \hA4D8), U32(\hEA1A, \h27DB), U32(\hF94A, \hD42F), U32(\h0B21, \h572C),
    U32(\hDFEB, \h33C7), U32(\h2D80, \hB0C4), U32(\h3ED0, \h4330), U32(\hCCBB, \hC033),
    U32(\hA24B, \hB5A6), U32(\h5020, \h36A5), U32(\h4370, \hC551), U32(\hB11B, \h4652),
    U32(\h65D1, \h22B9), U32(\h97BA, \hA1BA), U32(\h84EA, \h524E), U32(\h7681, \hD14D),
    U32(\h2892, \hED69), U32(\hDAF9, \h6E6A), U32(\hC9A9, \h9D9E), U32(\h3BC2, \h1E9D),
    U32(\hEF08, \h7A76), U32(\h1D63, \hF975), U32(\h0E33, \h0A81), U32(\hFC58, \h8982),
    U32(\hB215, \h72C9), U32(\h407E, \hF1CA), U32(\h532E, \h023E), U32(\hA145, \h813D),
    U32(\h758F, \hE5D6), U32(\h87E4, \h66D5), U32(\h94B4, \h9521), U32(\h66DF, \h1622),
    U32(\h38CC, \h2A06), U32(\hCAA7, \hA905), U32(\hD9F7, \h5AF1), U32(\h2B9C, \hD9F2),
    U32(\hFF56, \hBD19), U32(\h0D3D, \h3E1A), U32(\h1E6D, \hCDEE), U32(\hEC06, \h4EED),
    U32(\hC38D, \h26C4), U32(\h31E6, \hA5C7), U32(\h22B6, \h5633), U32(\hD0DD, \hD530),
    U32(\h0417, \hB1DB), U32(\hF67C, \h32D8), U32(\hE52C, \hC12C), U32(\h1747, \h422F),
    U32(\h4954, \h7E0B), U32(\hBB3F, \hFD08), U32(\hA86F, \h0EFC), U32(\h5A04, \h8DFF),
    U32(\h8ECE, \hE914), U32(\h7CA5, \h6A17), U32(\h6FF5, \h99E3), U32(\h9D9E, \h1AE0),
    U32(\hD3D3, \hE1AB), U32(\h21B8, \h62A8), U32(\h32E8, \h915C), U32(\hC083, \h125F),
    U32(\h1449, \h76B4), U32(\hE622, \hF5B7), U32(\hF572, \h0643), U32(\h0719, \h8540),
    U32(\h590A, \hB964), U32(\hAB61, \h3A67), U32(\hB831, \hC993), U32(\h4A5A, \h4A90),
    U32(\h9E90, \h2E7B), U32(\h6CFB, \hAD78), U32(\h7FAB, \h5E8C), U32(\h8DC0, \hDD8F),
    U32(\hE330, \hA81A), U32(\h115B, \h2B19), U32(\h020B, \hD8ED), U32(\hF060, \h5BEE),
    U32(\h24AA, \h3F05), U32(\hD6C1, \hBC06), U32(\hC591, \h4FF2), U32(\h37FA, \hCCF1),
    U32(\h69E9, \hF0D5), U32(\h9B82, \h73D6), U32(\h88D2, \h8022), U32(\h7AB9, \h0321),
    U32(\hAE73, \h67CA), U32(\h5C18, \hE4C9), U32(\h4F48, \h173D), U32(\hBD23, \h943E),
    U32(\hF36E, \h6F75), U32(\h0105, \hEC76), U32(\h1255, \h1F82), U32(\hE03E, \h9C81),
    U32(\h34F4, \hF86A), U32(\hC69F, \h7B69), U32(\hD5CF, \h889D), U32(\h27A4, \h0B9E),
    U32(\h79B7, \h37BA), U32(\h8BDC, \hB4B9), U32(\h988C, \h474D), U32(\h6AE7, \hC44E),
    U32(\hBE2D, \hA0A5), U32(\h4C46, \h23A6), U32(\h5F16, \hD052), U32(\hAD7D, \h5351)
  >>

\* crc_tableil8_o40[256], lines 142-208; U32(\hXXXX, \hYYYY) is 0xXXXXYYYY.
crc_tableil8_o40 ==
  <<
    U32(\h0000, \h0000), U32(\h13A2, \h9877), U32(\h2745, \h30EE), U32(\h34E7, \hA899),
    U32(\h4E8A, \h61DC), U32(\h5D28, \hF9AB), U32(\h69CF, \h5132), U32(\h7A6D, \hC945),
    U32(\h9D14, \hC3B8), U32(\h8EB6, \h5BCF), U32(\hBA51, \hF356), U32(\hA9F3, \h6B21),
    U32(\hD39E, \hA264), U32(\hC03C, \h3A13), U32(\hF4DB, \h928A), U32(\hE779, \h0AFD),
    U32(\h3FC5, \hF181), U32(\h2C67, \h69F6), U32(\h1880, \hC16F), U32(\h0B22, \h5918),
    U32(\h714F, \h905D), U32(\h62ED, \h082A), U32(\h560A, \hA0B3), U32(\h45A8, \h38C4),
    U32(\hA2D1, \h3239), U32(\hB173, \hAA4E), U32(\h8594, \h02D7), U32(\h9636, \h9AA0),
    U32(\hEC5B, \h53E5), U32(\hFFF9, \hCB92), U32(\hCB1E, \h630B), U32(\hD8BC, \hFB7C),
    U32(\h7F8B, \hE302), U32(\h6C29, \h7B75), U32(\h58CE, \hD3EC), U32(\h4B6C, \h4B9B),
    U32(\h3101, \h82DE), U32(\h22A3, \h1AA9), U32(\h1644, \hB230), U32(\h05E6, \h2A47),
    U32(\hE29F, \h20BA), U32(\hF13D, \hB8CD), U32(\hC5DA, \h1054), U32(\hD678, \h8823),
    U32(\hAC15, \h4166), U32(\hBFB7, \hD911), U32(\h8B50, \h7188), U32(\h98F2, \hE9FF),
    U32(\h404E, \h1283), U32(\h53EC, \h8AF4), U32(\h670B, \h226D), U32(\h74A9, \hBA1A),
    U32(\h0EC4, \h735F), U32(\h1D66, \hEB28), U32(\h2981, \h43B1), U32(\h3A23, \hDBC6),
    U32(\hDD5A, \hD13B), U32(\hCEF8, \h494C), U32(\hFA1F, \hE1D5), U32(\hE9BD, \h79A2),
    U32(\h93D0, \hB0E7), U32(\h8072, \h2890), U32(\hB495, \h8009), U32(\hA737, \h187E),
    U32(\hFF17, \hC604), U32(\hECB5, \h5E73), U32(\hD852, \hF6EA), U32(\hCBF0, \h6E9D),
    U32(\hB19D, \hA7D8), U32(\hA23F, \h3FAF), U32(\h96D8, \h9736), U32(\h857A, \h0F41),
    U32(\h6203, \h05BC), U32(\h71A1, \h9DCB), U32(\h4546, \h3552), U32(\h56E4, \hAD25),
    U32(\h2C89, \h6460), U32(\h3F2B, \hFC17), U32(\h0BCC, \h548E), U32(\h186E, \hCCF9),
    U32(\hC0D2, \h3785), U32(\hD370, \hAFF2), U32(\hE797, \h076B), U32(\hF435, \h9F1C),
    U32(\h8E58, \h5659), U32(\h9DFA, \hCE2E), U32(\hA91D, \h66B7), U32(\hBABF, \hFEC0),
    U32(\h5DC6, \hF43D), U32(\h4E64, \h6C4A), U32(\h7A83, \hC4D3), U32(\h6921, \h5CA4),
    U32(\h134C, \h95E1), U32(\h00EE, \h0D96), U32(\h3409, \hA50F), U32(\h27AB, \h3D78),
    U32(\h809C, \h2506), U32(\h933E, \hBD71), U32(\hA7D9, \h15E8), U32(\hB47B, \h8D9F),
    U32(\hCE16, \h44DA), U32(\hDDB4, \hDCAD), U32(\hE953, \h7434), U32(\hFAF1, \hEC43),
    U32(\h1D88, \hE6BE), U32(\h0E2A, \h7EC9), U32(\h3ACD, \hD650), U32(\h296F, \h4E27),
    U32(\h5302, \h8762), U32(\h40A0, \h1F15), U32(\h7447, \hB78C), U32(\h67E5, \h2FFB),
    U32(\hBF59, \hD487), U32(\hACFB, \h4CF0), U32(\h981C, \hE469), U32(\h8BBE, \h7C1E),
    U32(\hF1D3, \hB55B), U32(\hE271, \h2D2C), U32(\hD696, \h85B5), U32(\hC534, \h1DC2),
    U32(\h224D, \h173F), U32(\h31EF, \h8F48), U32(\h0508, \h27D1), U32(\h16AA, \hBFA6),
    U32(\h6CC7, \h76E3), U32(\h7F65, \hEE94), U32(\h4B82, \h460D), U32(\h5820, \hDE7A),
    U32(\hFBC3, \hFAF9), U32(\hE861, \h628E), U32(\hDC86, \hCA17), U32(\hCF24, \h5260),
    U32(\hB549, \h9B25), U32(\hA6EB, \h0352), U32(\h920C, \hABCB), U32(\h81AE, \h33BC),
    U32(\h66D7, \h3941), U32(\h7575, \hA136), U32(\h4192, \h09AF), U32(\h5230, \h91D8),
    U32(\h285D, \h589D), U32(\h3BFF, \hC0EA), U32(\h0F18, \h6873), U32(\h1CBA, \hF004),
    U32(\hC406, \h0B78), U32(\hD7A4, \h930F), U32(\hE343, \h3B96), U32(\hF0E1, \hA3E1),
    U32(\h8A8C, \h6AA4), U32(\h992E, \hF2D3), U32(\hADC9, \h5A4A), U32(\hBE6B, \hC23D),
    U32(\h5912, \hC8C0), U32(\h4AB0, \h50B7), U32(\h7E57, \hF82E), U32(\h6DF5, \h6059),
    U32(\h1798, \hA91C), U32(\h043A, \h316B), U32(\h30DD, \h99F2), U32(\h237F, \h0185),
    U32(\h8448, \h19FB), U32(\h97EA, \h818C), U32(\hA30D, \h2915), U32(\hB0AF, \hB162),
    U32(\hCAC2, \h7827), U32(\hD960, \hE050), U32(\hED87, \h48C9), U32(\hFE25, \hD0BE),
    U32(\h195C, \hDA43), U32(\h0AFE, \h4234), U32(\h3E19, \hEAAD), U32(\h2DBB, \h72DA),
    U32(\h57D6, \hBB9F), U32(\h4474, \h23E8), U32(\h7093, \h8B71), U32(\h6331, \h1306),
    U32(\hBB8D, \hE87A), U32(\hA82F, \h700D), U32(\h9CC8, \hD894), U32(\h8F6A, \h40E3),
    U32(\hF507, \h89A6), U32(\hE6A5, \h11D1), U32(\hD242, \hB948), U32(\hC1E0, \h213F),
    U32(\h2699, \h2BC2), U32(\h353B, \hB3B5), U32(\h01DC, \h1B2C), U32(\h127E, \h835B),
    U32(\h6813, \h4A1E), U32(\h7BB1, \hD269), U32(\h4F56, \h7AF0), U32(\h5CF4, \hE287),
    U32(\h04D4, \h3CFD), U32(\h1776, \hA48A), U32(\h2391, \h0C13), U32(\h3033, \h9464),
    U32(\h4A5E, \h5D21), U32(\h59FC, \hC556), U32(\h6D1B, \h6DCF), U32(\h7EB9, \hF5B8),
    U32(\h99C0, \hFF45), U32(\h8A62, \h6732), U32(\hBE85, \hCFAB), U32(\hAD27, \h57DC),
    U32(\hD74A, \h9E99), U32(\hC4E8, \h06EE), U32(\hF00F, \hAE77), U32(\hE3AD, \h3600),
    U32(\h3B11, \hCD7C), U32(\h28B3, \h550B), U32(\h1C54, \hFD92), U32(\h0FF6, \h65E5),
    U32(\h759B, \hACA0), U32(\h6639, \h34D7), U32(\h52DE, \h9C4E), U32(\h417C, \h0439),
    U32(\hA605, \h0EC4), U32(\hB5A7, \h96B3), U32(\h8140, \h3E2A), U32(\h92E2, \hA65D),
    U32(\hE88F, \h6F18), U32(\hFB2D, \hF76F), U32(\hCFCA, \h5FF6), U32(\hDC68, \hC781),
    U32(\h7B5F, \hDFFF), U32(\h68FD, \h4788), U32(\h5C1A, \hEF11), U32(\h4FB8, \h7766),
    U32(\h35D5, \hBE23), U32(\h2677, \h2654), U32(\h1290, \h8ECD), U32(\h0132, \h16BA),
    U32(\hE64B, \h1C47), U32(\hF5E9, \h8430), U32(\hC10E, \h2CA9), U32(\hD2AC, \hB4DE),
    U32(\hA8C1, \h7D9B), U32(\hBB63, \hE5EC), U32(\h8F84, \h4D75), U32(\h9C26, \hD502),
    U32(\h449A, \h2E7E), U32(\h5738, \hB609), U32(\h63DF, \h1E90), U32(\h707D, \h86E7),
    U32(\h0A10, \h4FA2), U32(\h19B2, \hD7D5), U32(\h2D55, \h7F4C), U32(\h3EF7, \hE73B),
    U32(\hD98E, \hEDC6), U32(\hCA2C, \h75B1), U32(\hFECB, \hDD28), U32(\hED69, \h455F),
    U32(\h9704, \h8C1A), U32(\h84A6, \h146D), U32(\hB041, \hBCF4), U32(\hA3E3, \h2483)
  >>

\* crc_tableil8_o48[256], lines 209-275; U32(\hXXXX, \hYYYY) is 0xXXXXYYYY.
crc_tableil8_o48 ==
  <<
    U32(\h0000, \h0000), U32(\hA541, \h927E), U32(\h4F6F, \h520D), U32(\hEA2E, \hC073),
    U32(\h9EDE, \hA41A), U32(\h3B9F, \h3664), U32(\hD1B1, \hF617), U32(\h74F0, \h6469),
    U32(\h3851, \h3EC5), U32(\h9D10, \hACBB), U32(\h773E, \h6CC8), U32(\hD27F, \hFEB6),
    U32(\hA68F, \h9ADF), U32(\h03CE, \h08A1), U32(\hE9E0, \hC8D2), U32(\h4CA1, \h5AAC),
    U32(\h70A2, \h7D8A), U32(\hD5E3, \hEFF4), U32(\h3FCD, \h2F87), U32(\h9A8C, \hBDF9),
    U32(\hEE7C, \hD990), U32(\h4B3D, \h4BEE), U32(\hA113, \h8B9D), U32(\h0452, \h19E3),
    U32(\h48F3, \h434F), U32(\hEDB2, \hD131), U32(\h079C, \h1142), U32(\hA2DD, \h833C),
    U32(\hD62D, \hE755), U32(\h736C, \h752B), U32(\h9942, \hB558), U32(\h3C03, \h2726),
    U32(\hE144, \hFB14), U32(\h4405, \h696A), U32(\hAE2B, \hA919), U32(\h0B6A, \h3B67),
    U32(\h7F9A, \h5F0E), U32(\hDADB, \hCD70), U32(\h30F5, \h0D03), U32(\h95B4, \h9F7D),
    U32(\hD915, \hC5D1), U32(\h7C54, \h57AF), U32(\h967A, \h97DC), U32(\h333B, \h05A2),
    U32(\h47CB, \h61CB), U32(\hE28A, \hF3B5), U32(\h08A4, \h33C6), U32(\hADE5, \hA1B8),
    U32(\h91E6, \h869E), U32(\h34A7, \h14E0), U32(\hDE89, \hD493), U32(\h7BC8, \h46ED),
    U32(\h0F38, \h2284), U32(\hAA79, \hB0FA), U32(\h4057, \h7089), U32(\hE516, \hE2F7),
    U32(\hA9B7, \hB85B), U32(\h0CF6, \h2A25), U32(\hE6D8, \hEA56), U32(\h4399, \h7828),
    U32(\h3769, \h1C41), U32(\h9228, \h8E3F), U32(\h7806, \h4E4C), U32(\hDD47, \hDC32),
    U32(\hC765, \h80D9), U32(\h6224, \h12A7), U32(\h880A, \hD2D4), U32(\h2D4B, \h40AA),
    U32(\h59BB, \h24C3), U32(\hFCFA, \hB6BD), U32(\h16D4, \h76CE), U32(\hB395, \hE4B0),
    U32(\hFF34, \hBE1C), U32(\h5A75, \h2C62), U32(\hB05B, \hEC11), U32(\h151A, \h7E6F),
    U32(\h61EA, \h1A06), U32(\hC4AB, \h8878), U32(\h2E85, \h480B), U32(\h8BC4, \hDA75),
    U32(\hB7C7, \hFD53), U32(\h1286, \h6F2D), U32(\hF8A8, \hAF5E), U32(\h5DE9, \h3D20),
    U32(\h2919, \h5949), U32(\h8C58, \hCB37), U32(\h6676, \h0B44), U32(\hC337, \h993A),
    U32(\h8F96, \hC396), U32(\h2AD7, \h51E8), U32(\hC0F9, \h919B), U32(\h65B8, \h03E5),
    U32(\h1148, \h678C), U32(\hB409, \hF5F2), U32(\h5E27, \h3581), U32(\hFB66, \hA7FF),
    U32(\h2621, \h7BCD), U32(\h8360, \hE9B3), U32(\h694E, \h29C0), U32(\hCC0F, \hBBBE),
    U32(\hB8FF, \hDFD7), U32(\h1DBE, \h4DA9), U32(\hF790, \h8DDA), U32(\h52D1, \h1FA4),
    U32(\h1E70, \h4508), U32(\hBB31, \hD776), U32(\h511F, \h1705), U32(\hF45E, \h857B),
    U32(\h80AE, \hE112), U32(\h25EF, \h736C), U32(\hCFC1, \hB31F), U32(\h6A80, \h2161),
    U32(\h5683, \h0647), U32(\hF3C2, \h9439), U32(\h19EC, \h544A), U32(\hBCAD, \hC634),
    U32(\hC85D, \hA25D), U32(\h6D1C, \h3023), U32(\h8732, \hF050), U32(\h2273, \h622E),
    U32(\h6ED2, \h3882), U32(\hCB93, \hAAFC), U32(\h21BD, \h6A8F), U32(\h84FC, \hF8F1),
    U32(\hF00C, \h9C98), U32(\h554D, \h0EE6), U32(\hBF63, \hCE95), U32(\h1A22, \h5CEB),
    U32(\h8B27, \h7743), U32(\h2E66, \hE53D), U32(\hC448, \h254E), U32(\h6109, \hB730),
    U32(\h15F9, \hD359), U32(\hB0B8, \h4127), U32(\h5A96, \h8154), U32(\hFFD7, \h132A),
    U32(\hB376, \h4986), U32(\h1637, \hDBF8), U32(\hFC19, \h1B8B), U32(\h5958, \h89F5),
    U32(\h2DA8, \hED9C), U32(\h88E9, \h7FE2), U32(\h62C7, \hBF91), U32(\hC786, \h2DEF),
    U32(\hFB85, \h0AC9), U32(\h5EC4, \h98B7), U32(\hB4EA, \h58C4), U32(\h11AB, \hCABA),
    U32(\h655B, \hAED3), U32(\hC01A, \h3CAD), U32(\h2A34, \hFCDE), U32(\h8F75, \h6EA0),
    U32(\hC3D4, \h340C), U32(\h6695, \hA672), U32(\h8CBB, \h6601), U32(\h29FA, \hF47F),
    U32(\h5D0A, \h9016), U32(\hF84B, \h0268), U32(\h1265, \hC21B), U32(\hB724, \h5065),
    U32(\h6A63, \h8C57), U32(\hCF22, \h1E29), U32(\h250C, \hDE5A), U32(\h804D, \h4C24),
    U32(\hF4BD, \h284D), U32(\h51FC, \hBA33), U32(\hBBD2, \h7A40), U32(\h1E93, \hE83E),
    U32(\h5232, \hB292), U32(\hF773, \h20EC), U32(\h1D5D, \hE09F), U32(\hB81C, \h72E1),
    U32(\hCCEC, \h1688), U32(\h69AD, \h84F6), U32(\h8383, \h4485), U32(\h26C2, \hD6FB),
    U32(\h1AC1, \hF1DD), U32(\hBF80, \h63A3), U32(\h55AE, \hA3D0), U32(\hF0EF, \h31AE),
    U32(\h841F, \h55C7), U32(\h215E, \hC7B9), U32(\hCB70, \h07CA), U32(\h6E31, \h95B4),
    U32(\h2290, \hCF18), U32(\h87D1, \h5D66), U32(\h6DFF, \h9D15), U32(\hC8BE, \h0F6B),
    U32(\hBC4E, \h6B02), U32(\h190F, \hF97C), U32(\hF321, \h390F), U32(\h5660, \hAB71),
    U32(\h4C42, \hF79A), U32(\hE903, \h65E4), U32(\h032D, \hA597), U32(\hA66C, \h37E9),
    U32(\hD29C, \h5380), U32(\h77DD, \hC1FE), U32(\h9DF3, \h018D), U32(\h38B2, \h93F3),
    U32(\h7413, \hC95F), U32(\hD152, \h5B21), U32(\h3B7C, \h9B52), U32(\h9E3D, \h092C),
    U32(\hEACD, \h6D45), U32(\h4F8C, \hFF3B), U32(\hA5A2, \h3F48), U32(\h00E3, \hAD36),
    U32(\h3CE0, \h8A10), U32(\h99A1, \h186E), U32(\h738F, \hD81D), U32(\hD6CE, \h4A63),
    U32(\hA23E, \h2E0A), U32(\h077F, \hBC74), U32(\hED51, \h7C07), U32(\h4810, \hEE79),
    U32(\h04B1, \hB4D5), U32(\hA1F0, \h26AB), U32(\h4BDE, \hE6D8), U32(\hEE9F, \h74A6),
    U32(\h9A6F, \h10CF), U32(\h3F2E, \h82B1), U32(\hD500, \h42C2), U32(\h7041, \hD0BC),
    U32(\hAD06, \h0C8E), U32(\h0847, \h9EF0), U32(\hE269, \h5E83), U32(\h4728, \hCCFD),
    U32(\h33D8, \hA894), U32(\h9699, \h3AEA), U32(\h7CB7, \hFA99), U32(\hD9F6, \h68E7),
    U32(\h9557, \h324B), U32(\h3016, \hA035), U32(\hDA38, \h6046), U32(\h7F79, \hF238),
    U32(\h0B89, \h9651), U32(\hAEC8, \h042F), U32(\h44E6, \hC45C), U32(\hE1A7, \h5622),
    U32(\hDDA4, \h7104), U32(\h78E5, \hE37A), U32(\h92CB, \h2309), U32(\h378A, \hB177),
    U32(\h437A, \hD51E), U32(\hE63B, \h4760), U32(\h0C15, \h8713), U32(\hA954, \h156D),
    U32(\hE5F5, \h4FC1), U32(\h40B4, \hDDBF), U32(\hAA9A, \h1DCC), U32(\h0FDB, \h8FB2),
    U32(\h7B2B, \hEBDB), U32(\hDE6A, \h79A5), U32(\h3444, \hB9D6), U32(\h9105, \h2BA8)
  >>

\* crc_tableil8_o56[256], lines 276-342; U32(\hXXXX, \hYYYY) is 0xXXXXYYYY.
crc_tableil8_o56 ==
  <<
    U32(\h0000, \h0000), U32(\hDD45, \hAAB8), U32(\hBF67, \h2381), U32(\h6222, \h8939),
    U32(\h7B22, \h31F3), U32(\hA667, \h9B4B), U32(\hC445, \h1272), U32(\h1900, \hB8CA),
    U32(\hF644, \h63E6), U32(\h2B01, \hC95E), U32(\h4923, \h4067), U32(\h9466, \hEADF),
    U32(\h8D66, \h5215), U32(\h5023, \hF8AD), U32(\h3201, \h7194), U32(\hEF44, \hDB2C),
    U32(\hE964, \hB13D), U32(\h3421, \h1B85), U32(\h5603, \h92BC), U32(\h8B46, \h3804),
    U32(\h9246, \h80CE), U32(\h4F03, \h2A76), U32(\h2D21, \hA34F), U32(\hF064, \h09F7),
    U32(\h1F20, \hD2DB), U32(\hC265, \h7863), U32(\hA047, \hF15A), U32(\h7D02, \h5BE2),
    U32(\h6402, \hE328), U32(\hB947, \h4990), U32(\hDB65, \hC0A9), U32(\h0620, \h6A11),
    U32(\hD725, \h148B), U32(\h0A60, \hBE33), U32(\h6842, \h370A), U32(\hB507, \h9DB2),
    U32(\hAC07, \h2578), U32(\h7142, \h8FC0), U32(\h1360, \h06F9), U32(\hCE25, \hAC41),
    U32(\h2161, \h776D), U32(\hFC24, \hDDD5), U32(\h9E06, \h54EC), U32(\h4343, \hFE54),
    U32(\h5A43, \h469E), U32(\h8706, \hEC26), U32(\hE524, \h651F), U32(\h3861, \hCFA7),
    U32(\h3E41, \hA5B6), U32(\hE304, \h0F0E), U32(\h8126, \h8637), U32(\h5C63, \h2C8F),
    U32(\h4563, \h9445), U32(\h9826, \h3EFD), U32(\hFA04, \hB7C4), U32(\h2741, \h1D7C),
    U32(\hC805, \hC650), U32(\h1540, \h6CE8), U32(\h7762, \hE5D1), U32(\hAA27, \h4F69),
    U32(\hB327, \hF7A3), U32(\h6E62, \h5D1B), U32(\h0C40, \hD422), U32(\hD105, \h7E9A),
    U32(\hABA6, \h5FE7), U32(\h76E3, \hF55F), U32(\h14C1, \h7C66), U32(\hC984, \hD6DE),
    U32(\hD084, \h6E14), U32(\h0DC1, \hC4AC), U32(\h6FE3, \h4D95), U32(\hB2A6, \hE72D),
    U32(\h5DE2, \h3C01), U32(\h80A7, \h96B9), U32(\hE285, \h1F80), U32(\h3FC0, \hB538),
    U32(\h26C0, \h0DF2), U32(\hFB85, \hA74A), U32(\h99A7, \h2E73), U32(\h44E2, \h84CB),
    U32(\h42C2, \hEEDA), U32(\h9F87, \h4462), U32(\hFDA5, \hCD5B), U32(\h20E0, \h67E3),
    U32(\h39E0, \hDF29), U32(\hE4A5, \h7591), U32(\h8687, \hFCA8), U32(\h5BC2, \h5610),
    U32(\hB486, \h8D3C), U32(\h69C3, \h2784), U32(\h0BE1, \hAEBD), U32(\hD6A4, \h0405),
    U32(\hCFA4, \hBCCF), U32(\h12E1, \h1677), U32(\h70C3, \h9F4E), U32(\hAD86, \h35F6),
    U32(\h7C83, \h4B6C), U32(\hA1C6, \hE1D4), U32(\hC3E4, \h68ED), U32(\h1EA1, \hC255),
    U32(\h07A1, \h7A9F), U32(\hDAE4, \hD027), U32(\hB8C6, \h591E), U32(\h6583, \hF3A6),
    U32(\h8AC7, \h288A), U32(\h5782, \h8232), U32(\h35A0, \h0B0B), U32(\hE8E5, \hA1B3),
    U32(\hF1E5, \h1979), U32(\h2CA0, \hB3C1), U32(\h4E82, \h3AF8), U32(\h93C7, \h9040),
    U32(\h95E7, \hFA51), U32(\h48A2, \h50E9), U32(\h2A80, \hD9D0), U32(\hF7C5, \h7368),
    U32(\hEEC5, \hCBA2), U32(\h3380, \h611A), U32(\h51A2, \hE823), U32(\h8CE7, \h429B),
    U32(\h63A3, \h99B7), U32(\hBEE6, \h330F), U32(\hDCC4, \hBA36), U32(\h0181, \h108E),
    U32(\h1881, \hA844), U32(\hC5C4, \h02FC), U32(\hA7E6, \h8BC5), U32(\h7AA3, \h217D),
    U32(\h52A0, \hC93F), U32(\h8FE5, \h6387), U32(\hEDC7, \hEABE), U32(\h3082, \h4006),
    U32(\h2982, \hF8CC), U32(\hF4C7, \h5274), U32(\h96E5, \hDB4D), U32(\h4BA0, \h71F5),
    U32(\hA4E4, \hAAD9), U32(\h79A1, \h0061), U32(\h1B83, \h8958), U32(\hC6C6, \h23E0),
    U32(\hDFC6, \h9B2A), U32(\h0283, \h3192), U32(\h60A1, \hB8AB), U32(\hBDE4, \h1213),
    U32(\hBBC4, \h7802), U32(\h6681, \hD2BA), U32(\h04A3, \h5B83), U32(\hD9E6, \hF13B),
    U32(\hC0E6, \h49F1), U32(\h1DA3, \hE349), U32(\h7F81, \h6A70), U32(\hA2C4, \hC0C8),
    U32(\h4D80, \h1BE4), U32(\h90C5, \hB15C), U32(\hF2E7, \h3865), U32(\h2FA2, \h92DD),
    U32(\h36A2, \h2A17), U32(\hEBE7, \h80AF), U32(\h89C5, \h0996), U32(\h5480, \hA32E),
    U32(\h8585, \hDDB4), U32(\h58C0, \h770C), U32(\h3AE2, \hFE35), U32(\hE7A7, \h548D),
    U32(\hFEA7, \hEC47), U32(\h23E2, \h46FF), U32(\h41C0, \hCFC6), U32(\h9C85, \h657E),
    U32(\h73C1, \hBE52), U32(\hAE84, \h14EA), U32(\hCCA6, \h9DD3), U32(\h11E3, \h376B),
    U32(\h08E3, \h8FA1), U32(\hD5A6, \h2519), U32(\hB784, \hAC20), U32(\h6AC1, \h0698),
    U32(\h6CE1, \h6C89), U32(\hB1A4, \hC631), U32(\hD386, \h4F08), U32(\h0EC3, \hE5B0),
    U32(\h17C3, \h5D7A), U32(\hCA86, \hF7C2), U32(\hA8A4, \h7EFB), U32(\h75E1, \hD443),
    U32(\h9AA5, \h0F6F), U32(\h47E0, \hA5D7), U32(\h25C2, \h2CEE), U32(\hF887, \h8656),
    U32(\hE187, \h3E9C), U32(\h3CC2, \h9424), U32(\h5EE0, \h1D1D), U32(\h83A5, \hB7A5),
    U32(\hF906, \h96D8), U32(\h2443, \h3C60), U32(\h4661, \hB559), U32(\h9B24, \h1FE1),
    U32(\h8224, \hA72B), U32(\h5F61, \h0D93), U32(\h3D43, \h84AA), U32(\hE006, \h2E12),
    U32(\h0F42, \hF53E), U32(\hD207, \h5F86), U32(\hB025, \hD6BF), U32(\h6D60, \h7C07),
    U32(\h7460, \hC4CD), U32(\hA925, \h6E75), U32(\hCB07, \hE74C), U32(\h1642, \h4DF4),
    U32(\h1062, \h27E5), U32(\hCD27, \h8D5D), U32(\hAF05, \h0464), U32(\h7240, \hAEDC),
    U32(\h6B40, \h1616), U32(\hB605, \hBCAE), U32(\hD427, \h3597), U32(\h0962, \h9F2F),
    U32(\hE626, \h4403), U32(\h3B63, \hEEBB), U32(\h5941, \h6782), U32(\h8404, \hCD3A),
    U32(\h9D04, \h75F0), U32(\h4041, \hDF48), U32(\h2263, \h5671), U32(\hFF26, \hFCC9),
    U32(\h2E23, \h8253), U32(\hF366, \h28EB), U32(\h9144, \hA1D2), U32(\h4C01, \h0B6A),
    U32(\h5501, \hB3A0), U32(\h8844, \h1918), U32(\hEA66, \h9021), U32(\h3723, \h3A99),
    U32(\hD867, \hE1B5), U32(\h0522, \h4B0D), U32(\h6700, \hC234), U32(\hBA45, \h688C),
    U32(\hA345, \hD046), U32(\h7E00, \h7AFE), U32(\h1C22, \hF3C7), U32(\hC167, \h597F),
    U32(\hC747, \h336E), U32(\h1A02, \h99D6), U32(\h7820, \h10EF), U32(\hA565, \hBA57),
    U32(\hBC65, \h029D), U32(\h6120, \hA825), U32(\h0302, \h211C), U32(\hDE47, \h8BA4),
    U32(\h3103, \h5088), U32(\hEC46, \hFA30), U32(\h8E64, \h7309), U32(\h5321, \hD9B1),
    U32(\h4A21, \h617B), U32(\h9764, \hCBC3), U32(\hF546, \h42FA), U32(\h2803, \hE842)
  >>

\* crc_tableil8_o64[256], lines 343-409; U32(\hXXXX, \hYYYY) is 0xXXXXYYYY.
crc_tableil8_o64 ==
  <<
    U32(\h0000, \h0000), U32(\h3811, \h6FAC), U32(\h7022, \hDF58), U32(\h4833, \hB0F4),
    U32(\hE045, \hBEB0), U32(\hD854, \hD11C), U32(\h9067, \h61E8), U32(\hA876, \h0E44),
    U32(\hC567, \h0B91), U32(\hFD76, \h643D), U32(\hB545, \hD4C9), U32(\h8D54, \hBB65),
    U32(\h2522, \hB521), U32(\h1D33, \hDA8D), U32(\h5500, \h6A79), U32(\h6D11, \h05D5),
    U32(\h8F22, \h61D3), U32(\hB733, \h0E7F), U32(\hFF00, \hBE8B), U32(\hC711, \hD127),
    U32(\h6F67, \hDF63), U32(\h5776, \hB0CF), U32(\h1F45, \h003B), U32(\h2754, \h6F97),
    U32(\h4A45, \h6A42), U32(\h7254, \h05EE), U32(\h3A67, \hB51A), U32(\h0276, \hDAB6),
    U32(\hAA00, \hD4F2), U32(\h9211, \hBB5E), U32(\hDA22, \h0BAA), U32(\hE233, \h6406),
    U32(\h1BA8, \hB557), U32(\h23B9, \hDAFB), U32(\h6B8A, \h6A0F), U32(\h539B, \h05A3),
    U32(\hFBED, \h0BE7), U32(\hC3FC, \h644B), U32(\h8BCF, \hD4BF), U32(\hB3DE, \hBB13),
    U32(\hDECF, \hBEC6), U32(\hE6DE, \hD16A), U32(\hAEED, \h619E), U32(\h96FC, \h0E32),
    U32(\h3E8A, \h0076), U32(\h069B, \h6FDA), U32(\h4EA8, \hDF2E), U32(\h76B9, \hB082),
    U32(\h948A, \hD484), U32(\hAC9B, \hBB28), U32(\hE4A8, \h0BDC), U32(\hDCB9, \h6470),
    U32(\h74CF, \h6A34), U32(\h4CDE, \h0598), U32(\h04ED, \hB56C), U32(\h3CFC, \hDAC0),
    U32(\h51ED, \hDF15), U32(\h69FC, \hB0B9), U32(\h21CF, \h004D), U32(\h19DE, \h6FE1),
    U32(\hB1A8, \h61A5), U32(\h89B9, \h0E09), U32(\hC18A, \hBEFD), U32(\hF99B, \hD151),
    U32(\h3751, \h6AAE), U32(\h0F40, \h0502), U32(\h4773, \hB5F6), U32(\h7F62, \hDA5A),
    U32(\hD714, \hD41E), U32(\hEF05, \hBBB2), U32(\hA736, \h0B46), U32(\h9F27, \h64EA),
    U32(\hF236, \h613F), U32(\hCA27, \h0E93), U32(\h8214, \hBE67), U32(\hBA05, \hD1CB),
    U32(\h1273, \hDF8F), U32(\h2A62, \hB023), U32(\h6251, \h00D7), U32(\h5A40, \h6F7B),
    U32(\hB873, \h0B7D), U32(\h8062, \h64D1), U32(\hC851, \hD425), U32(\hF040, \hBB89),
    U32(\h5836, \hB5CD), U32(\h6027, \hDA61), U32(\h2814, \h6A95), U32(\h1005, \h0539),
    U32(\h7D14, \h00EC), U32(\h4505, \h6F40), U32(\h0D36, \hDFB4), U32(\h3527, \hB018),
    U32(\h9D51, \hBE5C), U32(\hA540, \hD1F0), U32(\hED73, \h6104), U32(\hD562, \h0EA8),
    U32(\h2CF9, \hDFF9), U32(\h14E8, \hB055), U32(\h5CDB, \h00A1), U32(\h64CA, \h6F0D),
    U32(\hCCBC, \h6149), U32(\hF4AD, \h0EE5), U32(\hBC9E, \hBE11), U32(\h848F, \hD1BD),
    U32(\hE99E, \hD468), U32(\hD18F, \hBBC4), U32(\h99BC, \h0B30), U32(\hA1AD, \h649C),
    U32(\h09DB, \h6AD8), U32(\h31CA, \h0574), U32(\h79F9, \hB580), U32(\h41E8, \hDA2C),
    U32(\hA3DB, \hBE2A), U32(\h9BCA, \hD186), U32(\hD3F9, \h6172), U32(\hEBE8, \h0EDE),
    U32(\h439E, \h009A), U32(\h7B8F, \h6F36), U32(\h33BC, \hDFC2), U32(\h0BAD, \hB06E),
    U32(\h66BC, \hB5BB), U32(\h5EAD, \hDA17), U32(\h169E, \h6AE3), U32(\h2E8F, \h054F),
    U32(\h86F9, \h0B0B), U32(\hBEE8, \h64A7), U32(\hF6DB, \hD453), U32(\hCECA, \hBBFF),
    U32(\h6EA2, \hD55C), U32(\h56B3, \hBAF0), U32(\h1E80, \h0A04), U32(\h2691, \h65A8),
    U32(\h8EE7, \h6BEC), U32(\hB6F6, \h0440), U32(\hFEC5, \hB4B4), U32(\hC6D4, \hDB18),
    U32(\hABC5, \hDECD), U32(\h93D4, \hB161), U32(\hDBE7, \h0195), U32(\hE3F6, \h6E39),
    U32(\h4B80, \h607D), U32(\h7391, \h0FD1), U32(\h3BA2, \hBF25), U32(\h03B3, \hD089),
    U32(\hE180, \hB48F), U32(\hD991, \hDB23), U32(\h91A2, \h6BD7), U32(\hA9B3, \h047B),
    U32(\h01C5, \h0A3F), U32(\h39D4, \h6593), U32(\h71E7, \hD567), U32(\h49F6, \hBACB),
    U32(\h24E7, \hBF1E), U32(\h1CF6, \hD0B2), U32(\h54C5, \h6046), U32(\h6CD4, \h0FEA),
    U32(\hC4A2, \h01AE), U32(\hFCB3, \h6E02), U32(\hB480, \hDEF6), U32(\h8C91, \hB15A),
    U32(\h750A, \h600B), U32(\h4D1B, \h0FA7), U32(\h0528, \hBF53), U32(\h3D39, \hD0FF),
    U32(\h954F, \hDEBB), U32(\hAD5E, \hB117), U32(\hE56D, \h01E3), U32(\hDD7C, \h6E4F),
    U32(\hB06D, \h6B9A), U32(\h887C, \h0436), U32(\hC04F, \hB4C2), U32(\hF85E, \hDB6E),
    U32(\h5028, \hD52A), U32(\h6839, \hBA86), U32(\h200A, \h0A72), U32(\h181B, \h65DE),
    U32(\hFA28, \h01D8), U32(\hC239, \h6E74), U32(\h8A0A, \hDE80), U32(\hB21B, \hB12C),
    U32(\h1A6D, \hBF68), U32(\h227C, \hD0C4), U32(\h6A4F, \h6030), U32(\h525E, \h0F9C),
    U32(\h3F4F, \h0A49), U32(\h075E, \h65E5), U32(\h4F6D, \hD511), U32(\h777C, \hBABD),
    U32(\hDF0A, \hB4F9), U32(\hE71B, \hDB55), U32(\hAF28, \h6BA1), U32(\h9739, \h040D),
    U32(\h59F3, \hBFF2), U32(\h61E2, \hD05E), U32(\h29D1, \h60AA), U32(\h11C0, \h0F06),
    U32(\hB9B6, \h0142), U32(\h81A7, \h6EEE), U32(\hC994, \hDE1A), U32(\hF185, \hB1B6),
    U32(\h9C94, \hB463), U32(\hA485, \hDBCF), U32(\hECB6, \h6B3B), U32(\hD4A7, \h0497),
    U32(\h7CD1, \h0AD3), U32(\h44C0, \h657F), U32(\h0CF3, \hD58B), U32(\h34E2, \hBA27),
    U32(\hD6D1, \hDE21), U32(\hEEC0, \hB18D), U32(\hA6F3, \h0179), U32(\h9EE2, \h6ED5),
    U32(\h3694, \h6091), U32(\h0E85, \h0F3D), U32(\h46B6, \hBFC9), U32(\h7EA7, \hD065),
    U32(\h13B6, \hD5B0), U32(\h2BA7, \hBA1C), U32(\h6394, \h0AE8), U32(\h5B85, \h6544),
    U32(\hF3F3, \h6B00), U32(\hCBE2, \h04AC), U32(\h83D1, \hB458), U32(\hBBC0, \hDBF4),
    U32(\h425B, \h0AA5), U32(\h7A4A, \h6509), U32(\h3279, \hD5FD), U32(\h0A68, \hBA51),
    U32(\hA21E, \hB415), U32(\h9A0F, \hDBB9), U32(\hD23C, \h6B4D), U32(\hEA2D, \h04E1),
    U32(\h873C, \h0134), U32(\hBF2D, \h6E98), U32(\hF71E, \hDE6C), U32(\hCF0F, \hB1C0),
    U32(\h6779, \hBF84), U32(\h5F68, \hD028), U32(\h175B, \h60DC), U32(\h2F4A, \h0F70),
    U32(\hCD79, \h6B76), U32(\hF568, \h04DA), U32(\hBD5B, \hB42E), U32(\h854A, \hDB82),
    U32(\h2D3C, \hD5C6), U32(\h152D, \hBA6A), U32(\h5D1E, \h0A9E), U32(\h650F, \h6532),
    U32(\h081E, \h60E7), U32(\h300F, \h0F4B), U32(\h783C, \hBFBF), U32(\h402D, \hD013),
    U32(\hE85B, \hDE57), U32(\hD04A, \hB1FB), U32(\h9879, \h010F), U32(\hA068, \h6EA3)
  >>

\* crc_tableil8_o72[256], lines 410-476; U32(\hXXXX, \hYYYY) is 0xXXXXYYYY.
crc_tableil8_o72 ==
  <<
    U32(\h0000, \h0000), U32(\hEF30, \h6B19), U32(\hDB8C, \hA0C3), U32(\h34BC, \hCBDA),
    U32(\hB2F5, \h3777), U32(\h5DC5, \h5C6E), U32(\h6979, \h97B4), U32(\h8649, \hFCAD),
    U32(\h6006, \h181F), U32(\h8F36, \h7306), U32(\hBB8A, \hB8DC), U32(\h54BA, \hD3C5),
    U32(\hD2F3, \h2F68), U32(\h3DC3, \h4471), U32(\h097F, \h8FAB), U32(\hE64F, \hE4B2),
    U32(\hC00C, \h303E), U32(\h2F3C, \h5B27), U32(\h1B80, \h90FD), U32(\hF4B0, \hFBE4),
    U32(\h72F9, \h0749), U32(\h9DC9, \h6C50), U32(\hA975, \hA78A), U32(\h4645, \hCC93),
    U32(\hA00A, \h2821), U32(\h4F3A, \h4338), U32(\h7B86, \h88E2), U32(\h94B6, \hE3FB),
    U32(\h12FF, \h1F56), U32(\hFDCF, \h744F), U32(\hC973, \hBF95), U32(\h2643, \hD48C),
    U32(\h85F4, \h168D), U32(\h6AC4, \h7D94), U32(\h5E78, \hB64E), U32(\hB148, \hDD57),
    U32(\h3701, \h21FA), U32(\hD831, \h4AE3), U32(\hEC8D, \h8139), U32(\h03BD, \hEA20),
    U32(\hE5F2, \h0E92), U32(\h0AC2, \h658B), U32(\h3E7E, \hAE51), U32(\hD14E, \hC548),
    U32(\h5707, \h39E5), U32(\hB837, \h52FC), U32(\h8C8B, \h9926), U32(\h63BB, \hF23F),
    U32(\h45F8, \h26B3), U32(\hAAC8, \h4DAA), U32(\h9E74, \h8670), U32(\h7144, \hED69),
    U32(\hF70D, \h11C4), U32(\h183D, \h7ADD), U32(\h2C81, \hB107), U32(\hC3B1, \hDA1E),
    U32(\h25FE, \h3EAC), U32(\hCACE, \h55B5), U32(\hFE72, \h9E6F), U32(\h1142, \hF576),
    U32(\h970B, \h09DB), U32(\h783B, \h62C2), U32(\h4C87, \hA918), U32(\hA3B7, \hC201),
    U32(\h0E04, \h5BEB), U32(\hE134, \h30F2), U32(\hD588, \hFB28), U32(\h3AB8, \h9031),
    U32(\hBCF1, \h6C9C), U32(\h53C1, \h0785), U32(\h677D, \hCC5F), U32(\h884D, \hA746),
    U32(\h6E02, \h43F4), U32(\h8132, \h28ED), U32(\hB58E, \hE337), U32(\h5ABE, \h882E),
    U32(\hDCF7, \h7483), U32(\h33C7, \h1F9A), U32(\h077B, \hD440), U32(\hE84B, \hBF59),
    U32(\hCE08, \h6BD5), U32(\h2138, \h00CC), U32(\h1584, \hCB16), U32(\hFAB4, \hA00F),
    U32(\h7CFD, \h5CA2), U32(\h93CD, \h37BB), U32(\hA771, \hFC61), U32(\h4841, \h9778),
    U32(\hAE0E, \h73CA), U32(\h413E, \h18D3), U32(\h7582, \hD309), U32(\h9AB2, \hB810),
    U32(\h1CFB, \h44BD), U32(\hF3CB, \h2FA4), U32(\hC777, \hE47E), U32(\h2847, \h8F67),
    U32(\h8BF0, \h4D66), U32(\h64C0, \h267F), U32(\h507C, \hEDA5), U32(\hBF4C, \h86BC),
    U32(\h3905, \h7A11), U32(\hD635, \h1108), U32(\hE289, \hDAD2), U32(\h0DB9, \hB1CB),
    U32(\hEBF6, \h5579), U32(\h04C6, \h3E60), U32(\h307A, \hF5BA), U32(\hDF4A, \h9EA3),
    U32(\h5903, \h620E), U32(\hB633, \h0917), U32(\h828F, \hC2CD), U32(\h6DBF, \hA9D4),
    U32(\h4BFC, \h7D58), U32(\hA4CC, \h1641), U32(\h9070, \hDD9B), U32(\h7F40, \hB682),
    U32(\hF909, \h4A2F), U32(\h1639, \h2136), U32(\h2285, \hEAEC), U32(\hCDB5, \h81F5),
    U32(\h2BFA, \h6547), U32(\hC4CA, \h0E5E), U32(\hF076, \hC584), U32(\h1F46, \hAE9D),
    U32(\h990F, \h5230), U32(\h763F, \h3929), U32(\h4283, \hF2F3), U32(\hADB3, \h99EA),
    U32(\h1C08, \hB7D6), U32(\hF338, \hDCCF), U32(\hC784, \h1715), U32(\h28B4, \h7C0C),
    U32(\hAEFD, \h80A1), U32(\h41CD, \hEBB8), U32(\h7571, \h2062), U32(\h9A41, \h4B7B),
    U32(\h7C0E, \hAFC9), U32(\h933E, \hC4D0), U32(\hA782, \h0F0A), U32(\h48B2, \h6413),
    U32(\hCEFB, \h98BE), U32(\h21CB, \hF3A7), U32(\h1577, \h387D), U32(\hFA47, \h5364),
    U32(\hDC04, \h87E8), U32(\h3334, \hECF1), U32(\h0788, \h272B), U32(\hE8B8, \h4C32),
    U32(\h6EF1, \hB09F), U32(\h81C1, \hDB86), U32(\hB57D, \h105C), U32(\h5A4D, \h7B45),
    U32(\hBC02, \h9FF7), U32(\h5332, \hF4EE), U32(\h678E, \h3F34), U32(\h88BE, \h542D),
    U32(\h0EF7, \hA880), U32(\hE1C7, \hC399), U32(\hD57B, \h0843), U32(\h3A4B, \h635A),
    U32(\h99FC, \hA15B), U32(\h76CC, \hCA42), U32(\h4270, \h0198), U32(\hAD40, \h6A81),
    U32(\h2B09, \h962C), U32(\hC439, \hFD35), U32(\hF085, \h36EF), U32(\h1FB5, \h5DF6),
    U32(\hF9FA, \hB944), U32(\h16CA, \hD25D), U32(\h2276, \h1987), U32(\hCD46, \h729E),
    U32(\h4B0F, \h8E33), U32(\hA43F, \hE52A), U32(\h9083, \h2EF0), U32(\h7FB3, \h45E9),
    U32(\h59F0, \h9165), U32(\hB6C0, \hFA7C), U32(\h827C, \h31A6), U32(\h6D4C, \h5ABF),
    U32(\hEB05, \hA612), U32(\h0435, \hCD0B), U32(\h3089, \h06D1), U32(\hDFB9, \h6DC8),
    U32(\h39F6, \h897A), U32(\hD6C6, \hE263), U32(\hE27A, \h29B9), U32(\h0D4A, \h42A0),
    U32(\h8B03, \hBE0D), U32(\h6433, \hD514), U32(\h508F, \h1ECE), U32(\hBFBF, \h75D7),
    U32(\h120C, \hEC3D), U32(\hFD3C, \h8724), U32(\hC980, \h4CFE), U32(\h26B0, \h27E7),
    U32(\hA0F9, \hDB4A), U32(\h4FC9, \hB053), U32(\h7B75, \h7B89), U32(\h9445, \h1090),
    U32(\h720A, \hF422), U32(\h9D3A, \h9F3B), U32(\hA986, \h54E1), U32(\h46B6, \h3FF8),
    U32(\hC0FF, \hC355), U32(\h2FCF, \hA84C), U32(\h1B73, \h6396), U32(\hF443, \h088F),
    U32(\hD200, \hDC03), U32(\h3D30, \hB71A), U32(\h098C, \h7CC0), U32(\hE6BC, \h17D9),
    U32(\h60F5, \hEB74), U32(\h8FC5, \h806D), U32(\hBB79, \h4BB7), U32(\h5449, \h20AE),
    U32(\hB206, \hC41C), U32(\h5D36, \hAF05), U32(\h698A, \h64DF), U32(\h86BA, \h0FC6),
    U32(\h00F3, \hF36B), U32(\hEFC3, \h9872), U32(\hDB7F, \h53A8), U32(\h344F, \h38B1),
    U32(\h97F8, \hFAB0), U32(\h78C8, \h91A9), U32(\h4C74, \h5A73), U32(\hA344, \h316A),
    U32(\h250D, \hCDC7), U32(\hCA3D, \hA6DE), U32(\hFE81, \h6D04), U32(\h11B1, \h061D),
    U32(\hF7FE, \hE2AF), U32(\h18CE, \h89B6), U32(\h2C72, \h426C), U32(\hC342, \h2975),
    U32(\h450B, \hD5D8), U32(\hAA3B, \hBEC1), U32(\h9E87, \h751B), U32(\h71B7, \h1E02),
    U32(\h57F4, \hCA8E), U32(\hB8C4, \hA197), U32(\h8C78, \h6A4D), U32(\h6348, \h0154),
    U32(\hE501, \hFDF9), U32(\h0A31, \h96E0), U32(\h3E8D, \h5D3A), U32(\hD1BD, \h3623),
    U32(\h37F2, \hD291), U32(\hD8C2, \hB988), U32(\hEC7E, \h7252), U32(\h034E, \h194B),
    U32(\h8507, \hE5E6), U32(\h6A37, \h8EFF), U32(\h5E8B, \h4525), U32(\hB1BB, \h2E3C)
  >>

\* crc_tableil8_o80[256], lines 477-543; U32(\hXXXX, \hYYYY) is 0xXXXXYYYY.
crc_tableil8_o80 ==
  <<
    U32(\h0000, \h0000), U32(\h6803, \h2CC8), U32(\hD006, \h5990), U32(\hB805, \h7558),
    U32(\hA5E0, \hC5D1), U32(\hCDE3, \hE919), U32(\h75E6, \h9C41), U32(\h1DE5, \hB089),
    U32(\h4E2D, \hFD53), U32(\h262E, \hD19B), U32(\h9E2B, \hA4C3), U32(\hF628, \h880B),
    U32(\hEBCD, \h3882), U32(\h83CE, \h144A), U32(\h3BCB, \h6112), U32(\h53C8, \h4DDA),
    U32(\h9C5B, \hFAA6), U32(\hF458, \hD66E), U32(\h4C5D, \hA336), U32(\h245E, \h8FFE),
    U32(\h39BB, \h3F77), U32(\h51B8, \h13BF), U32(\hE9BD, \h66E7), U32(\h81BE, \h4A2F),
    U32(\hD276, \h07F5), U32(\hBA75, \h2B3D), U32(\h0270, \h5E65), U32(\h6A73, \h72AD),
    U32(\h7796, \hC224), U32(\h1F95, \hEEEC), U32(\hA790, \h9BB4), U32(\hCF93, \hB77C),
    U32(\h3D5B, \h83BD), U32(\h5558, \hAF75), U32(\hED5D, \hDA2D), U32(\h855E, \hF6E5),
    U32(\h98BB, \h466C), U32(\hF0B8, \h6AA4), U32(\h48BD, \h1FFC), U32(\h20BE, \h3334),
    U32(\h7376, \h7EEE), U32(\h1B75, \h5226), U32(\hA370, \h277E), U32(\hCB73, \h0BB6),
    U32(\hD696, \hBB3F), U32(\hBE95, \h97F7), U32(\h0690, \hE2AF), U32(\h6E93, \hCE67),
    U32(\hA100, \h791B), U32(\hC903, \h55D3), U32(\h7106, \h208B), U32(\h1905, \h0C43),
    U32(\h04E0, \hBCCA), U32(\h6CE3, \h9002), U32(\hD4E6, \hE55A), U32(\hBCE5, \hC992),
    U32(\hEF2D, \h8448), U32(\h872E, \hA880), U32(\h3F2B, \hDDD8), U32(\h5728, \hF110),
    U32(\h4ACD, \h4199), U32(\h22CE, \h6D51), U32(\h9ACB, \h1809), U32(\hF2C8, \h34C1),
    U32(\h7AB7, \h077A), U32(\h12B4, \h2BB2), U32(\hAAB1, \h5EEA), U32(\hC2B2, \h7222),
    U32(\hDF57, \hC2AB), U32(\hB754, \hEE63), U32(\h0F51, \h9B3B), U32(\h6752, \hB7F3),
    U32(\h349A, \hFA29), U32(\h5C99, \hD6E1), U32(\hE49C, \hA3B9), U32(\h8C9F, \h8F71),
    U32(\h917A, \h3FF8), U32(\hF979, \h1330), U32(\h417C, \h6668), U32(\h297F, \h4AA0),
    U32(\hE6EC, \hFDDC), U32(\h8EEF, \hD114), U32(\h36EA, \hA44C), U32(\h5EE9, \h8884),
    U32(\h430C, \h380D), U32(\h2B0F, \h14C5), U32(\h930A, \h619D), U32(\hFB09, \h4D55),
    U32(\hA8C1, \h008F), U32(\hC0C2, \h2C47), U32(\h78C7, \h591F), U32(\h10C4, \h75D7),
    U32(\h0D21, \hC55E), U32(\h6522, \hE996), U32(\hDD27, \h9CCE), U32(\hB524, \hB006),
    U32(\h47EC, \h84C7), U32(\h2FEF, \hA80F), U32(\h97EA, \hDD57), U32(\hFFE9, \hF19F),
    U32(\hE20C, \h4116), U32(\h8A0F, \h6DDE), U32(\h320A, \h1886), U32(\h5A09, \h344E),
    U32(\h09C1, \h7994), U32(\h61C2, \h555C), U32(\hD9C7, \h2004), U32(\hB1C4, \h0CCC),
    U32(\hAC21, \hBC45), U32(\hC422, \h908D), U32(\h7C27, \hE5D5), U32(\h1424, \hC91D),
    U32(\hDBB7, \h7E61), U32(\hB3B4, \h52A9), U32(\h0BB1, \h27F1), U32(\h63B2, \h0B39),
    U32(\h7E57, \hBBB0), U32(\h1654, \h9778), U32(\hAE51, \hE220), U32(\hC652, \hCEE8),
    U32(\h959A, \h8332), U32(\hFD99, \hAFFA), U32(\h459C, \hDAA2), U32(\h2D9F, \hF66A),
    U32(\h307A, \h46E3), U32(\h5879, \h6A2B), U32(\hE07C, \h1F73), U32(\h887F, \h33BB),
    U32(\hF56E, \h0EF4), U32(\h9D6D, \h223C), U32(\h2568, \h5764), U32(\h4D6B, \h7BAC),
    U32(\h508E, \hCB25), U32(\h388D, \hE7ED), U32(\h8088, \h92B5), U32(\hE88B, \hBE7D),
    U32(\hBB43, \hF3A7), U32(\hD340, \hDF6F), U32(\h6B45, \hAA37), U32(\h0346, \h86FF),
    U32(\h1EA3, \h3676), U32(\h76A0, \h1ABE), U32(\hCEA5, \h6FE6), U32(\hA6A6, \h432E),
    U32(\h6935, \hF452), U32(\h0136, \hD89A), U32(\hB933, \hADC2), U32(\hD130, \h810A),
    U32(\hCCD5, \h3183), U32(\hA4D6, \h1D4B), U32(\h1CD3, \h6813), U32(\h74D0, \h44DB),
    U32(\h2718, \h0901), U32(\h4F1B, \h25C9), U32(\hF71E, \h5091), U32(\h9F1D, \h7C59),
    U32(\h82F8, \hCCD0), U32(\hEAFB, \hE018), U32(\h52FE, \h9540), U32(\h3AFD, \hB988),
    U32(\hC835, \h8D49), U32(\hA036, \hA181), U32(\h1833, \hD4D9), U32(\h7030, \hF811),
    U32(\h6DD5, \h4898), U32(\h05D6, \h6450), U32(\hBDD3, \h1108), U32(\hD5D0, \h3DC0),
    U32(\h8618, \h701A), U32(\hEE1B, \h5CD2), U32(\h561E, \h298A), U32(\h3E1D, \h0542),
    U32(\h23F8, \hB5CB), U32(\h4BFB, \h9903), U32(\hF3FE, \hEC5B), U32(\h9BFD, \hC093),
    U32(\h546E, \h77EF), U32(\h3C6D, \h5B27), U32(\h8468, \h2E7F), U32(\hEC6B, \h02B7),
    U32(\hF18E, \hB23E), U32(\h998D, \h9EF6), U32(\h2188, \hEBAE), U32(\h498B, \hC766),
    U32(\h1A43, \h8ABC), U32(\h7240, \hA674), U32(\hCA45, \hD32C), U32(\hA246, \hFFE4),
    U32(\hBFA3, \h4F6D), U32(\hD7A0, \h63A5), U32(\h6FA5, \h16FD), U32(\h07A6, \h3A35),
    U32(\h8FD9, \h098E), U32(\hE7DA, \h2546), U32(\h5FDF, \h501E), U32(\h37DC, \h7CD6),
    U32(\h2A39, \hCC5F), U32(\h423A, \hE097), U32(\hFA3F, \h95CF), U32(\h923C, \hB907),
    U32(\hC1F4, \hF4DD), U32(\hA9F7, \hD815), U32(\h11F2, \hAD4D), U32(\h79F1, \h8185),
    U32(\h6414, \h310C), U32(\h0C17, \h1DC4), U32(\hB412, \h689C), U32(\hDC11, \h4454),
    U32(\h1382, \hF328), U32(\h7B81, \hDFE0), U32(\hC384, \hAAB8), U32(\hAB87, \h8670),
    U32(\hB662, \h36F9), U32(\hDE61, \h1A31), U32(\h6664, \h6F69), U32(\h0E67, \h43A1),
    U32(\h5DAF, \h0E7B), U32(\h35AC, \h22B3), U32(\h8DA9, \h57EB), U32(\hE5AA, \h7B23),
    U32(\hF84F, \hCBAA), U32(\h904C, \hE762), U32(\h2849, \h923A), U32(\h404A, \hBEF2),
    U32(\hB282, \h8A33), U32(\hDA81, \hA6FB), U32(\h6284, \hD3A3), U32(\h0A87, \hFF6B),
    U32(\h1762, \h4FE2), U32(\h7F61, \h632A), U32(\hC764, \h1672), U32(\hAF67, \h3ABA),
    U32(\hFCAF, \h7760), U32(\h94AC, \h5BA8), U32(\h2CA9, \h2EF0), U32(\h44AA, \h0238),
    U32(\h594F, \hB2B1), U32(\h314C, \h9E79), U32(\h8949, \hEB21), U32(\hE14A, \hC7E9),
    U32(\h2ED9, \h7095), U32(\h46DA, \h5C5D), U32(\hFEDF, \h2905), U32(\h96DC, \h05CD),
    U32(\h8B39, \hB544), U32(\hE33A, \h998C), U32(\h5B3F, \hECD4), U32(\h333C, \hC01C),
    U32(\h60F4, \h8DC6), U32(\h08F7, \hA10E), U32(\hB0F2, \hD456), U32(\hD8F1, \hF89E),
    U32(\hC514, \h4817), U32(\hAD17, \h64DF), U32(\h1512, \h1187), U32(\h7D11, \h3D4F)
  >>

\* crc_tableil8_o88[256], lines 544-610; U32(\hXXXX, \hYYYY) is 0xXXXXYYYY.
crc_tableil8_o88 ==
  <<
    U32(\h0000, \h0000), U32(\h493C, \h7D27), U32(\h9278, \hFA4E), U32(\hDB44, \h8769),
    U32(\h211D, \h826D), U32(\h6821, \hFF4A), U32(\hB365, \h7823), U32(\hFA59, \h0504),
    U32(\h423B, \h04DA), U32(\h0B07, \h79FD), U32(\hD043, \hFE94), U32(\h997F, \h83B3),
    U32(\h6326, \h86B7), U32(\h2A1A, \hFB90), U32(\hF15E, \h7CF9), U32(\hB862, \h01DE),
    U32(\h8476, \h09B4), U32(\hCD4A, \h7493), U32(\h160E, \hF3FA), U32(\h5F32, \h8EDD),
    U32(\hA56B, \h8BD9), U32(\hEC57, \hF6FE), U32(\h3713, \h7197), U32(\h7E2F, \h0CB0),
    U32(\hC64D, \h0D6E), U32(\h8F71, \h7049), U32(\h5435, \hF720), U32(\h1D09, \h8A07),
    U32(\hE750, \h8F03), U32(\hAE6C, \hF224), U32(\h7528, \h754D), U32(\h3C14, \h086A),
    U32(\h0D00, \h6599), U32(\h443C, \h18BE), U32(\h9F78, \h9FD7), U32(\hD644, \hE2F0),
    U32(\h2C1D, \hE7F4), U32(\h6521, \h9AD3), U32(\hBE65, \h1DBA), U32(\hF759, \h609D),
    U32(\h4F3B, \h6143), U32(\h0607, \h1C64), U32(\hDD43, \h9B0D), U32(\h947F, \hE62A),
    U32(\h6E26, \hE32E), U32(\h271A, \h9E09), U32(\hFC5E, \h1960), U32(\hB562, \h6447),
    U32(\h8976, \h6C2D), U32(\hC04A, \h110A), U32(\h1B0E, \h9663), U32(\h5232, \hEB44),
    U32(\hA86B, \hEE40), U32(\hE157, \h9367), U32(\h3A13, \h140E), U32(\h732F, \h6929),
    U32(\hCB4D, \h68F7), U32(\h8271, \h15D0), U32(\h5935, \h92B9), U32(\h1009, \hEF9E),
    U32(\hEA50, \hEA9A), U32(\hA36C, \h97BD), U32(\h7828, \h10D4), U32(\h3114, \h6DF3),
    U32(\h1A00, \hCB32), U32(\h533C, \hB615), U32(\h8878, \h317C), U32(\hC144, \h4C5B),
    U32(\h3B1D, \h495F), U32(\h7221, \h3478), U32(\hA965, \hB311), U32(\hE059, \hCE36),
    U32(\h583B, \hCFE8), U32(\h1107, \hB2CF), U32(\hCA43, \h35A6), U32(\h837F, \h4881),
    U32(\h7926, \h4D85), U32(\h301A, \h30A2), U32(\hEB5E, \hB7CB), U32(\hA262, \hCAEC),
    U32(\h9E76, \hC286), U32(\hD74A, \hBFA1), U32(\h0C0E, \h38C8), U32(\h4532, \h45EF),
    U32(\hBF6B, \h40EB), U32(\hF657, \h3DCC), U32(\h2D13, \hBAA5), U32(\h642F, \hC782),
    U32(\hDC4D, \hC65C), U32(\h9571, \hBB7B), U32(\h4E35, \h3C12), U32(\h0709, \h4135),
    U32(\hFD50, \h4431), U32(\hB46C, \h3916), U32(\h6F28, \hBE7F), U32(\h2614, \hC358),
    U32(\h1700, \hAEAB), U32(\h5E3C, \hD38C), U32(\h8578, \h54E5), U32(\hCC44, \h29C2),
    U32(\h361D, \h2CC6), U32(\h7F21, \h51E1), U32(\hA465, \hD688), U32(\hED59, \hABAF),
    U32(\h553B, \hAA71), U32(\h1C07, \hD756), U32(\hC743, \h503F), U32(\h8E7F, \h2D18),
    U32(\h7426, \h281C), U32(\h3D1A, \h553B), U32(\hE65E, \hD252), U32(\hAF62, \hAF75),
    U32(\h9376, \hA71F), U32(\hDA4A, \hDA38), U32(\h010E, \h5D51), U32(\h4832, \h2076),
    U32(\hB26B, \h2572), U32(\hFB57, \h5855), U32(\h2013, \hDF3C), U32(\h692F, \hA21B),
    U32(\hD14D, \hA3C5), U32(\h9871, \hDEE2), U32(\h4335, \h598B), U32(\h0A09, \h24AC),
    U32(\hF050, \h21A8), U32(\hB96C, \h5C8F), U32(\h6228, \hDBE6), U32(\h2B14, \hA6C1),
    U32(\h3401, \h9664), U32(\h7D3D, \hEB43), U32(\hA679, \h6C2A), U32(\hEF45, \h110D),
    U32(\h151C, \h1409), U32(\h5C20, \h692E), U32(\h8764, \hEE47), U32(\hCE58, \h9360),
    U32(\h763A, \h92BE), U32(\h3F06, \hEF99), U32(\hE442, \h68F0), U32(\hAD7E, \h15D7),
    U32(\h5727, \h10D3), U32(\h1E1B, \h6DF4), U32(\hC55F, \hEA9D), U32(\h8C63, \h97BA),
    U32(\hB077, \h9FD0), U32(\hF94B, \hE2F7), U32(\h220F, \h659E), U32(\h6B33, \h18B9),
    U32(\h916A, \h1DBD), U32(\hD856, \h609A), U32(\h0312, \hE7F3), U32(\h4A2E, \h9AD4),
    U32(\hF24C, \h9B0A), U32(\hBB70, \hE62D), U32(\h6034, \h6144), U32(\h2908, \h1C63),
    U32(\hD351, \h1967), U32(\h9A6D, \h6440), U32(\h4129, \hE329), U32(\h0815, \h9E0E),
    U32(\h3901, \hF3FD), U32(\h703D, \h8EDA), U32(\hAB79, \h09B3), U32(\hE245, \h7494),
    U32(\h181C, \h7190), U32(\h5120, \h0CB7), U32(\h8A64, \h8BDE), U32(\hC358, \hF6F9),
    U32(\h7B3A, \hF727), U32(\h3206, \h8A00), U32(\hE942, \h0D69), U32(\hA07E, \h704E),
    U32(\h5A27, \h754A), U32(\h131B, \h086D), U32(\hC85F, \h8F04), U32(\h8163, \hF223),
    U32(\hBD77, \hFA49), U32(\hF44B, \h876E), U32(\h2F0F, \h0007), U32(\h6633, \h7D20),
    U32(\h9C6A, \h7824), U32(\hD556, \h0503), U32(\h0E12, \h826A), U32(\h472E, \hFF4D),
    U32(\hFF4C, \hFE93), U32(\hB670, \h83B4), U32(\h6D34, \h04DD), U32(\h2408, \h79FA),
    U32(\hDE51, \h7CFE), U32(\h976D, \h01D9), U32(\h4C29, \h86B0), U32(\h0515, \hFB97),
    U32(\h2E01, \h5D56), U32(\h673D, \h2071), U32(\hBC79, \hA718), U32(\hF545, \hDA3F),
    U32(\h0F1C, \hDF3B), U32(\h4620, \hA21C), U32(\h9D64, \h2575), U32(\hD458, \h5852),
    U32(\h6C3A, \h598C), U32(\h2506, \h24AB), U32(\hFE42, \hA3C2), U32(\hB77E, \hDEE5),
    U32(\h4D27, \hDBE1), U32(\h041B, \hA6C6), U32(\hDF5F, \h21AF), U32(\h9663, \h5C88),
    U32(\hAA77, \h54E2), U32(\hE34B, \h29C5), U32(\h380F, \hAEAC), U32(\h7133, \hD38B),
    U32(\h8B6A, \hD68F), U32(\hC256, \hABA8), U32(\h1912, \h2CC1), U32(\h502E, \h51E6),
    U32(\hE84C, \h5038), U32(\hA170, \h2D1F), U32(\h7A34, \hAA76), U32(\h3308, \hD751),
    U32(\hC951, \hD255), U32(\h806D, \hAF72), U32(\h5B29, \h281B), U32(\h1215, \h553C),
    U32(\h2301, \h38CF), U32(\h6A3D, \h45E8), U32(\hB179, \hC281), U32(\hF845, \hBFA6),
    U32(\h021C, \hBAA2), U32(\h4B20, \hC785), U32(\h9064, \h40EC), U32(\hD958, \h3DCB),
    U32(\h613A, \h3C15), U32(\h2806, \h4132), U32(\hF342, \hC65B), U32(\hBA7E, \hBB7C),
    U32(\h4027, \hBE78), U32(\h091B, \hC35F), U32(\hD25F, \h4436), U32(\h9B63, \h3911),
    U32(\hA777, \h317B), U32(\hEE4B, \h4C5C), U32(\h350F, \hCB35), U32(\h7C33, \hB612),
    U32(\h866A, \hB316), U32(\hCF56, \hCE31), U32(\h1412, \h4958), U32(\h5D2E, \h347F),
    U32(\hE54C, \h35A1), U32(\hAC70, \h4886), U32(\h7734, \hCFEF), U32(\h3E08, \hB2C8),
    U32(\hC451, \hB7CC), U32(\h8D6D, \hCAEB), U32(\h5629, \h4D82), U32(\h1F15, \h30A5)
  >>
(***************************************************************************)
(* Constants of afddefs.h used by the two source files.                    *)
(***************************************************************************)

YES == 1

NO == 0

SUCCESS == 0

INCORRECT == -1

\* The seed of a fresh checksum, (unsigned int)~0.
INITIAL_CRC == U32(\hFFFF, \hFFFF)

(***************************************************************************)
(* State.                                                                  *)
(***************************************************************************)

VARIABLES
  tables,      \* the eight global arrays crc_tableil8_o32 .. crc_tableil8_o88
  pc,          \* position of the running caller or of the running adapter
  crc,         \* the running CRC: the caller's between chunks, or *crc
  addr,        \* the address of the buffer passed; the code uses it mod 4
  icrc,        \* buffer calls: argument icrc
  mem,         \* buffer calls: the caller's data buffer
  results,     \* buffer calls: values returned so far, by call
  pos,         \* chunked fold: number of bytes of mem folded so far
  split,       \* chunked fold: some call ended strictly inside mem
  file,        \* file adapter: the bytes of the file behind fd
  fpos,        \* file adapter: the file position of fd
  buffer,      \* file adapter: the caller's read buffer, buf_size bytes
  buf_size,    \* file adapter: argument buf_size
  offset,      \* file adapter: argument offset
  have_hw,     \* file adapter: argument have_hw_crc32
  bytes_read,  \* file adapter: the local bytes_read
  ret,         \* file adapter: <<v>> once it has returned v, <<>> before
  nreads,      \* file adapter: number of read() calls issued
  last_read,   \* file adapter: the latest read(): bytes requested, bytes
               \* left in the file, value returned
  logged,      \* file adapter: number of system_log() calls
  probe,       \* repeated call: the value the same buffer call returned
               \* first and latest, and which other calls came before
  threads,     \* concurrent calls: per thread, the arguments and locals of
               \* its get_checksum_crc32c call and the folds it has done
  cpu,         \* capability detector: the processor's answer to CPUID and
               \* the values detect_cpu_crc32 has returned
  detach,      \* detach_afd_mon_status: the status file, the mapping and
               \* the position, log count and return value of the call
  gen          \* table derivation: an index, a lane and the value derived
               \* for them from the polynomial; one bulk step's in and out

callVars == <<icrc, mem, results, pos, split, probe>>

fileVars ==
  <<file, fpos, buffer, buf_size, offset, have_hw, bytes_read, ret, nreads,
    last_read, logged>>

\* The parts of the program that the buffer, string and file calls leave
\* alone.
otherVars == <<threads, cpu, detach, gen>>

vars == <<tables, pc, crc, addr, callVars, fileVars, otherVars>>

\* The tables with the arrays o40 and o48 holding each other's entries.
TableSetSwapped ==
  [o32 |-> crc_tableil8_o32, o40 |-> crc_tableil8_o48,
   o48 |-> crc_tableil8_o40, o56 |-> crc_tableil8_o56,
   o64 |-> crc_tableil8_o64, o72 |-> crc_tableil8_o72,
   o80 |-> crc_tableil8_o80, o88 |-> crc_tableil8_o88]

\* The tables as laid out in memory when the program starts.
TableSet ==
  [o32 |-> crc_tableil8_o32, o40 |-> crc_tableil8_o40,
   o48 |-> crc_tableil8_o48, o56 |-> crc_tableil8_o56,
   o64 |-> crc_tableil8_o64, o72 |-> crc_tableil8_o72,
   o80 |-> crc_tableil8_o80, o88 |-> crc_tableil8_o88]

(***************************************************************************)
(* Memory reads through a pointer mem + p (p counts bytes from mem[0]).    *)
(***************************************************************************)

\* *mem, one char.
Load8(m, p) == m[p + 1]

\* *(uint16_t *)mem, little-endian.
Load16(m, p) == <<m[p + 1], m[p + 2], 0, 0>>

\* *(uint32_t *)mem, little-endian.
Load32(m, p) == <<m[p + 1], m[p + 2], m[p + 3], m[p + 4]>>

(***************************************************************************)
(* TLC hands an operator its arguments unevaluated and evaluates them on   *)
(* first use.  Evaluated(v) is TRUE for every v; as the first conjunct of a *)
(* loop's test it makes TLC compute the running value of one iteration     *)
(* before it enters the next, instead of nesting all of them.              *)
(***************************************************************************)
Evaluated(v) == v = v

(***************************************************************************)
(* The SSE4.2 CRC32 instruction behind __builtin_ia32_crc32{qi,hi,si}: the *)
(* operand is XORed into the accumulator, which is then divided, one bit   *)
(* per step and one step per operand bit, by the reflected Castagnoli      *)
(* polynomial 0x82F63B78.                                                  *)
(***************************************************************************)

Castagnoli == U32(\h82F6, \h3B78)

\* nbits division steps on acc.
RECURSIVE Crc32Bits(_, _)
Crc32Bits(acc, nbits) ==
  IF nbits = 0 THEN acc
  ELSE Crc32Bits(IF acc[1] % 2 = 1 THEN Xor(Shr1(acc), Castagnoli)
                 ELSE Shr1(acc),
                 nbits - 1)

\* The division is linear over XOR, so eight steps on acc are acc >> 8
\* XORed with eight steps on the low byte of acc alone; those are tabulated
\* once from the polynomial.
CastagnoliRemainder == [x \in 0..255 |-> Crc32Bits(<<x, 0, 0, 0>>, 8)]

Crc32Byte(acc) == Xor(Shr8(acc), CastagnoliRemainder[LowByte(acc)])

\* crc32b, crc32w and crc32l: 8, 16 and 32 division steps.
builtin_ia32_crc32qi(acc, b) == Crc32Byte(Xor(acc, <<b, 0, 0, 0>>))

builtin_ia32_crc32hi(acc, h) == Crc32Byte(Crc32Byte(Xor(acc, h)))

builtin_ia32_crc32si(acc, w) ==
  Crc32Byte(Crc32Byte(Crc32Byte(Crc32Byte(Xor(acc, w)))))

(***************************************************************************)
(* get_checksum_crc32c, hardware path (have_hw_crc32 == YES).              *)
(***************************************************************************)

\* for (i = 0; i < (size / sizeof(uint32_t)); i++)
\*    { crc = __builtin_ia32_crc32si(crc, *(uint32_t *)mem); mem += 4; }
RECURSIVE HwWordLoop(_, _, _, _)
HwWordLoop(acc, m, i, n) ==
  IF Evaluated(acc) /\ i < n
  THEN HwWordLoop(builtin_ia32_crc32si(acc, Load32(m, 4 * i)), m, i + 1, n)
  ELSE acc

\* HwTail with a break after case 3: the last two of three tail bytes are lost.
HwTailNoFallThrough(acc, m, p, rest) ==
  CASE rest = 3 -> builtin_ia32_crc32qi(acc, Load8(m, p))
    [] rest = 2 -> builtin_ia32_crc32hi(acc, Load16(m, p))
    [] rest = 1 -> builtin_ia32_crc32qi(acc, Load8(m, p))
    [] OTHER -> acc

\* size &= sizeof(uint32_t) - 1; switch (size), case 3 falling into case 2.
HwTail(acc, m, p, rest) ==
  CASE rest = 3 ->
         builtin_ia32_crc32hi(builtin_ia32_crc32qi(acc, Load8(m, p)),
                              Load16(m, p + 1))
    [] rest = 2 -> builtin_ia32_crc32hi(acc, Load16(m, p))
    [] rest = 1 -> builtin_ia32_crc32qi(acc, Load8(m, p))
    [] OTHER -> acc

HardwarePath(c, m, size) ==
  LET words == size \div 4
  IN  HwTail(HwWordLoop(c, m, 0, words), m, 4 * words, size % 4)

(***************************************************************************)
(* get_checksum_crc32c, software path (slicing-by-8).                      *)
(***************************************************************************)

\* ByteStep without the shift of the old value.
ByteStepNoShift(acc, b) ==
  Xor(tables.o32[LowByte(Xor(acc, CharToInt(b))) + 1], acc)

\* crc = crc_tableil8_o32[(crc ^ *mem++) & 0x000000FF] ^ (crc >> 8);
ByteStep(acc, b) ==
  Xor(tables.o32[LowByte(Xor(acc, CharToInt(b))) + 1], Shr8(acc))

\* for (li = 0; li < n; li++) ByteStep, reading from mem + p.
RECURSIVE ByteLoop(_, _, _, _, _)
ByteLoop(acc, m, p, li, n) ==
  IF Evaluated(acc) /\ li < n
  THEN ByteLoop(ByteStep(acc, Load8(m, p + li)), m, p, li + 1, n)
  ELSE acc

\* BulkStep with the tables of the two low lanes of the first word exchanged.
BulkStepLanesSwapped(acc, m, p) ==
  LET c1     == Xor(acc, Load32(m, p))
      term1  == Xor(tables.o80[LowByte(c1) + 1],
                    tables.o88[LowByte(Shr8(c1)) + 1])
      term2  == Shr16(c1)
      c2     == Xor(Xor(term1, tables.o72[LowByte(term2) + 1]),
                    tables.o64[LowByte(Shr8(term2)) + 1])
      w2     == Load32(m, p + 4)
      term1b == Xor(tables.o56[LowByte(w2) + 1],
                    tables.o48[LowByte(Shr8(w2)) + 1])
      term2b == Shr16(w2)
  IN  Xor(Xor(Xor(c2, term1b), tables.o40[LowByte(term2b) + 1]),
          tables.o32[LowByte(Shr8(term2b)) + 1])

\* BulkStep with the tables of the two high bytes of the second word
\* exchanged.
BulkStepLastLanesSwapped(acc, m, p) ==
  LET c1     == Xor(acc, Load32(m, p))
      term1  == Xor(tables.o88[LowByte(c1) + 1],
                    tables.o80[LowByte(Shr8(c1)) + 1])
      term2  == Shr16(c1)
      c2     == Xor(Xor(term1, tables.o72[LowByte(term2) + 1]),
                    tables.o64[LowByte(Shr8(term2)) + 1])
      w2     == Load32(m, p + 4)
      term1b == Xor(tables.o56[LowByte(w2) + 1],
                    tables.o48[LowByte(Shr8(w2)) + 1])
      term2b == Shr16(w2)
  IN  Xor(Xor(Xor(c2, term1b), tables.o32[LowByte(term2b) + 1]),
          tables.o40[LowByte(Shr8(term2b)) + 1])

\* One iteration of the bulk loop on the eight bytes at mem + p.
BulkStep(acc, m, p) ==
  LET c1     == Xor(acc, Load32(m, p))
      term1  == Xor(tables.o88[LowByte(c1) + 1],
                    tables.o80[LowByte(Shr8(c1)) + 1])
      term2  == Shr16(c1)
      c2     == Xor(Xor(term1, tables.o72[LowByte(term2) + 1]),
                    tables.o64[LowByte(Shr8(term2)) + 1])
      w2     == Load32(m, p + 4)
      term1b == Xor(tables.o56[LowByte(w2) + 1],
                    tables.o48[LowByte(Shr8(w2)) + 1])
      term2b == Shr16(w2)
  IN  Xor(Xor(Xor(c2, term1b), tables.o40[LowByte(term2b) + 1]),
          tables.o32[LowByte(Shr8(term2b)) + 1])

\* for (li = 0; li < (running_length / 8); li++) BulkStep, from mem + p.
RECURSIVE BulkLoop(_, _, _, _, _)
BulkLoop(acc, m, p, li, n) ==
  IF Evaluated(acc) /\ li < n
  THEN BulkLoop(BulkStep(acc, m, p + 8 * li), m, p, li + 1, n)
  ELSE acc

\* The distance to the word boundary, not capped by size.
InitialBytesUncapped(a, size) == (4 - (a % 4)) % 4

\* The prologue taking a whole word's worth of bytes from an aligned buffer.
InitialBytesOfWord(a, size) ==
  LET distance == 4 - (a % 4)
  IN  IF size < distance THEN size ELSE distance

\* (sizeof(int32_t) - (intptr_t)mem) & (sizeof(int32_t) - 1), capped by size.
InitialBytes(a, size) ==
  LET distance == (4 - (a % 4)) % 4
  IN  IF size < distance THEN size ELSE distance

SoftwarePath(c, m, a, size) ==
  LET initial_bytes  == InitialBytes(a, size)
      rest           == size - initial_bytes
      running_length == rest - (rest % 8)
      end_bytes      == rest - running_length
      c1 == ByteLoop(c, m, 0, 0, initial_bytes)
      c2 == BulkLoop(c1, m, initial_bytes, 0, running_length \div 8)
  IN  ByteLoop(c2, m, initial_bytes + running_length, 0, end_bytes)

\* get_checksum_crc32c returning the finalised checksum, ~crc.
get_checksum_crc32c_finalised(c, m, a, size, have_hw_crc32) ==
  Xor(IF have_hw_crc32 = YES
      THEN HardwarePath(c, m, size)
      ELSE SoftwarePath(c, m, a, size),
      U32(\hFFFF, \hFFFF))

\* get_checksum_crc32c with its running value kept in a variable that
\* outlives the call (here the one the file adapter last wrote) in place of
\* being set from icrc.
get_checksum_crc32c_static(c, m, a, size, have_hw_crc32) ==
  IF have_hw_crc32 = YES
  THEN HardwarePath(crc, m, size)
  ELSE SoftwarePath(crc, m, a, size)

\* unsigned int get_checksum_crc32c(icrc, mem, size, have_hw_crc32): m holds
\* the bytes at mem, a is the address mem points to.
get_checksum_crc32c(c, m, a, size, have_hw_crc32) ==
  IF have_hw_crc32 = YES
  THEN HardwarePath(c, m, size)
  ELSE SoftwarePath(c, m, a, size)

\* size_t strlen(const char *s): the number of bytes before the first NUL.
RECURSIVE strlen_from(_, _)
strlen_from(s, n) == IF s[n + 1] = 0 THEN n ELSE strlen_from(s, n + 1)

\* strlen counting the terminator as well.
strlen_with_terminator(s) == strlen_from(s, 0) + 1

strlen(s) == strlen_from(s, 0)

\* unsigned int get_str_checksum_crc32c(char *str, int have_hw_crc32)
get_str_checksum_crc32c(str, a, have_hw_crc32) ==
  get_checksum_crc32c(INITIAL_CRC, str, a, strlen(str), have_hw_crc32)

(***************************************************************************)
(* Inputs of the buffer and string calls.                                  *)
(***************************************************************************)

\* Longest buffer handed to a call.
MaxLen == 17

\* "123456789123..." in ASCII.
Digits(n) == [i \in 1..n |-> 49 + ((i - 1) % 9)]

\* n zero bytes.
Zeros(n) == [i \in 1..n |-> 0]

\* Bytes on both sides of 0x80.
Mixed(n) == [i \in 1..n |-> (i * i * 37 + i * 171 + 200) % 256]

Buffers == UNION {{Digits(n), Zeros(n), Mixed(n)} : n \in 0..MaxLen}

StartValues == {INITIAL_CRC, U32(\h0000, \h0000), U32(\h1234, \hABCD)}

NoValue == <<>>

\* The repeated call has not been made yet.
NoProbe == [first |-> NoValue, latest |-> NoValue, after |-> {}]

\* No file adapter call is under way.
NoFileCall ==
  /\ file = <<>> /\ fpos = 0 /\ buffer = <<>> /\ buf_size = 0 /\ offset = 0
  /\ have_hw = NO /\ bytes_read = 0 /\ ret = NoValue /\ nreads = 0
  /\ last_read = NoValue /\ logged = 0

\* No thread runs a call, the detector and detach_afd_mon_status have not
\* been called, and no table entry is being derived.
Idle ==
  /\ threads = <<>> /\ cpu = NoValue /\ detach = NoValue /\ gen = NoValue

(***************************************************************************)
(* Buffer and string calls.  A caller holding mem at address addr either   *)
(* checksums it in single calls (pc = "calls": once on each path and once  *)
(* as a string), or folds it chunk by chunk, carrying the returned value   *)
(* into the next call (pc = "chunks").                                     *)
(***************************************************************************)

Init ==
  /\ tables = TableSet
  /\ Idle
  /\ icrc \in StartValues
  /\ mem \in Buffers
  /\ \/ pc = "calls" /\ addr \in 0..3
     \/ pc = "chunks" /\ addr = 0
  /\ results = [sw |-> NoValue, hw |-> NoValue, str |-> NoValue]
  /\ pos = 0
  /\ crc = icrc
  /\ split = FALSE
  /\ probe = NoProbe
  /\ NoFileCall

\* results.sw = get_checksum_crc32c(icrc, mem, size, NO)
CallSoftware ==
  /\ pc = "calls"
  /\ results.sw = NoValue
  /\ results' = [results EXCEPT
                   !.sw = get_checksum_crc32c(icrc, mem, addr, Len(mem), NO)]
  /\ UNCHANGED <<otherVars, tables, icrc, mem, addr, pc, pos, crc, split, probe, fileVars>>

\* results.hw = get_checksum_crc32c(icrc, mem, size, YES)
CallHardware ==
  /\ pc = "calls"
  /\ results.hw = NoValue
  /\ results' = [results EXCEPT
                   !.hw = get_checksum_crc32c(icrc, mem, addr, Len(mem), YES)]
  /\ UNCHANGED <<otherVars, tables, icrc, mem, addr, pc, pos, crc, split, probe, fileVars>>

\* results.str = get_str_checksum_crc32c(str, h), str being mem followed by
\* its terminating NUL; the flag passed is recorded with the value.
CallString ==
  /\ pc = "calls"
  /\ results.str = NoValue
  /\ \E h \in {YES, NO} :
       results' = [results EXCEPT
                     !.str = <<h, get_str_checksum_crc32c(mem \o <<0>>, addr, h)>>]
  /\ UNCHANGED <<otherVars, tables, icrc, mem, addr, pc, pos, crc, split, probe, fileVars>>

\* crc = get_checksum_crc32c(crc, chunk, n, NO) on the next n bytes of mem
\* (n = 0 included), the chunk lying at any alignment a.  split records that
\* some call ended strictly inside the buffer.
FoldChunk ==
  /\ pc = "chunks"
  /\ \E n \in 0..(Len(mem) - pos), a \in 0..3 :
       /\ crc' = get_checksum_crc32c(crc, SubSeq(mem, pos + 1, pos + n), a, n, NO)
       /\ pos' = pos + n
       /\ split' = (split \/ (0 < pos + n /\ pos + n < Len(mem)))
  /\ UNCHANGED <<otherVars, tables, icrc, mem, addr, pc, results, probe, fileVars>>

Next == CallSoftware \/ CallHardware \/ CallString \/ FoldChunk

Spec == Init /\ [][Next]_vars

(***************************************************************************)
(* get_file_checksum_crc32c(fd, buffer, buf_size, offset, crc,             *)
(* have_hw_crc32).  The function blocks in read(); each action below is    *)
(* one read() together with everything the function does with its result  *)
(* up to the next read() or the return.                                    *)
(***************************************************************************)

\* Longest file, largest read buffer, and the number of read() calls after
\* which the model stops following a call that is still reading.
MaxFile == 10

MaxBuf == 8

MaxReads == 13

Files == {Mixed(n) : n \in 0..MaxFile}

BufferAddresses == {0, 3}

\* What the caller's *crc holds before the call.
StaleCrc == U32(\hDEAD, \hBEEF)

Min(a, b) == IF a < b THEN a ELSE b

\* ssize_t read(fd, buf, count) with `left' bytes between the file position
\* and the end of the file: -1 on failure, 0 at end of file or for count 0,
\* otherwise any number of bytes from 1 up to min(count, left).
ReadOutcomes(count, left) ==
  {-1} \cup (IF Min(count, left) = 0 THEN {0} ELSE 1..Min(count, left))

\* read() storing at the start of the buffer whatever address it is given.
StoredAtStart(buf, at, got, from) ==
  [i \in 1..Len(buf) |-> IF i <= got THEN file[from + i] ELSE buf[i]]

\* The buffer after read() has stored got bytes of the file, taken from file
\* position from, at buf + at.
Stored(buf, at, got, from) ==
  [i \in 1..Len(buf) |->
     IF at < i /\ i <= at + got THEN file[from + (i - at)] ELSE buf[i]]

\* The function without the assignment *crc = INITIAL_CRC: *crc keeps the
\* value the caller left in it.
SeedCrcOmitted(old) == old

\* *crc = INITIAL_CRC; the value of *crc from the function's first statement
\* on, whatever it held before.
SeedCrc(old) == INITIAL_CRC

\* The loop test as bytes_read <= buf_size: reading on after a short read.
ReadAgainAtMost(n, size) == n <= size

\* The loop test with a guard against an empty buffer.
ReadAgainNonEmpty(n, size) == n = size /\ n > 0

\* The loop test as bytes_read > buf_size, which never holds.
ReadAgainNever(n, size) == n > size

\* The loop test as bytes_read > 0: reading on for as long as data arrived.
ReadAgainWhileData(n, size) == n > 0

\* bytes_read == buf_size: the test that enters and that repeats the loop.
ReadAgain(n, size) == n = size

\* The first fold without the offset bytes.
FirstFoldSizeNoOffset(got, off) == got

\* bytes_read += offset: the size of the first fold.
FirstFoldSize(got, off) == got + off

\* if (... read(fd, ptr, buf_size)) > 0): a loop read is folded.
LoopFolds(got) == got > 0

\* The failure test taking the end of the file for a failure as well.
ReadFailedOrEmpty(got) == got <= 0

\* The failure test against a value read() never returns.
ReadFailedBelow(got) == got < -1

\* else if (bytes_read == -1) { system_log(...); return(INCORRECT); }
ReadFailed(got) == got = -1

InitFile ==
  /\ tables = TableSet
  /\ Idle
  /\ icrc = INITIAL_CRC /\ mem = <<>> /\ pos = 0 /\ split = FALSE
  /\ probe = NoProbe
  /\ results = [sw |-> NoValue, hw |-> NoValue, str |-> NoValue]
  /\ file \in Files
  /\ fpos = 0
  /\ buf_size \in 0..MaxBuf
  /\ offset \in 0..buf_size
  /\ buffer = Digits(buf_size)
  /\ addr \in BufferAddresses
  /\ have_hw \in {YES, NO}
  /\ crc = StaleCrc
  /\ bytes_read = 0
  /\ ret = NoValue
  /\ nreads = 0
  /\ last_read = NoValue
  /\ logged = 0
  /\ pc = "first_read"

\* *crc = INITIAL_CRC; ptr = buffer;
\* bytes_read = read(fd, ptr + offset, buf_size - offset) and what follows,
\* up to the loop's first read() or the return.
FirstRead ==
  /\ pc = "first_read"
  /\ \E got \in ReadOutcomes(buf_size - offset, Len(file) - fpos) :
       /\ nreads' = nreads + 1
       /\ last_read' = [requested |-> buf_size - offset,
                        left |-> Len(file) - fpos, returned |-> got]
       /\ IF got >= 0
          THEN /\ buffer' = Stored(buffer, offset, got, fpos)
               /\ fpos' = fpos + got
               /\ bytes_read' = FirstFoldSize(got, offset)
               /\ crc' = get_checksum_crc32c(SeedCrc(crc), buffer', addr,
                                             bytes_read', have_hw)
               /\ logged' = logged
               /\ IF ReadAgain(bytes_read', buf_size)
                  THEN pc' = "loop_read" /\ ret' = ret
                  ELSE pc' = "done" /\ ret' = <<SUCCESS>>
          ELSE /\ crc' = SeedCrc(crc)
               /\ bytes_read' = got
               /\ UNCHANGED <<buffer, fpos>>
               /\ IF ReadFailed(got)
                  THEN logged' = logged + 1 /\ pc' = "done" /\ ret' = <<INCORRECT>>
                  ELSE /\ logged' = logged
                       /\ IF ReadAgain(got, buf_size)
                          THEN pc' = "loop_read" /\ ret' = ret
                          ELSE pc' = "done" /\ ret' = <<SUCCESS>>
  /\ UNCHANGED <<otherVars, tables, addr, callVars, file, buf_size, offset, have_hw>>

\* One iteration of the do ... while (bytes_read == buf_size) loop:
\* ptr = buffer; bytes_read = read(fd, ptr, buf_size) and what follows.
LoopRead ==
  /\ pc = "loop_read"
  /\ nreads < MaxReads
  /\ \E got \in ReadOutcomes(buf_size, Len(file) - fpos) :
       /\ nreads' = nreads + 1
       /\ last_read' = [requested |-> buf_size,
                        left |-> Len(file) - fpos, returned |-> got]
       /\ bytes_read' = got
       /\ IF LoopFolds(got)
          THEN /\ buffer' = Stored(buffer, 0, got, fpos)
               /\ fpos' = fpos + got
               /\ crc' = get_checksum_crc32c(crc, buffer', addr, got, have_hw)
          ELSE UNCHANGED <<buffer, fpos, crc>>
       /\ IF ~LoopFolds(got) /\ ReadFailed(got)
          THEN logged' = logged + 1 /\ pc' = "done" /\ ret' = <<INCORRECT>>
          ELSE /\ logged' = logged
               /\ IF ReadAgain(got, buf_size)
                  THEN pc' = "loop_read" /\ ret' = ret
                  ELSE pc' = "done" /\ ret' = <<SUCCESS>>
  /\ UNCHANGED <<otherVars, tables, addr, callVars, file, buf_size, offset, have_hw>>

NextFile == FirstRead \/ LoopRead

SpecFile == InitFile /\ [][NextFile]_vars

\* The same call, given that it goes on running: read() is a blocking call
\* that returns, and the function takes its next step whenever it has one.
SpecFileFair == SpecFile /\ WF_vars(NextFile)

(***************************************************************************)
(* A caller that repeats one buffer call, get_checksum_crc32c(icrc, mem,   *)
(* size), with mem at any address and on either path, and between the      *)
(* repetitions runs the string adapter and the file adapter, any number of *)
(* times.                                                                  *)
(***************************************************************************)

\* Longest file and largest read buffer of the file adapter calls made in
\* between.
MaxBetweenFile == 3

MaxBetweenBuf == 2

ProbeBuffers == {Digits(9), Mixed(MaxLen)}

InitCalls ==
  /\ tables = TableSet
  /\ Idle
  /\ icrc \in StartValues
  /\ mem \in ProbeBuffers
  /\ addr = 0
  /\ pc = "calls"
  /\ results = [sw |-> NoValue, hw |-> NoValue, str |-> NoValue]
  /\ pos = 0
  /\ crc = StaleCrc
  /\ split = FALSE
  /\ probe = NoProbe
  /\ NoFileCall

\* v = get_checksum_crc32c(icrc, mem, size, h) with mem at address a.  The
\* caller keeps the first value returned and the latest, and notes which
\* adapters had returned before the latest call.
Probe ==
  /\ pc = "calls"
  /\ \E a \in 0..3, h \in {YES, NO} :
       LET v == get_checksum_crc32c(icrc, mem, a, Len(mem), h)
       IN  probe' =
             [first  |-> IF probe.first = NoValue THEN v ELSE probe.first,
              latest |-> v,
              after  |-> (IF results.str # NoValue THEN {"string"} ELSE {})
                         \cup (IF ret # NoValue THEN {"file"} ELSE {})]
  /\ UNCHANGED <<otherVars, tables, pc, crc, addr, icrc, mem, results, pos, split,
                 fileVars>>

\* The caller calls get_file_checksum_crc32c(fd, buffer, buf_size, 0, &crc,
\* have_hw_crc32) on a freshly opened file.
StartFile ==
  /\ pc = "calls"
  /\ file' \in {Mixed(n) : n \in 0..MaxBetweenFile}
  /\ buf_size' \in 1..MaxBetweenBuf
  /\ buffer' = Digits(buf_size')
  /\ have_hw' \in {YES, NO}
  /\ fpos' = 0 /\ offset' = 0 /\ bytes_read' = 0 /\ ret' = NoValue
  /\ nreads' = 0 /\ last_read' = NoValue /\ logged' = 0
  /\ pc' = "first_read"
  /\ UNCHANGED <<otherVars, tables, crc, addr, callVars>>

\* get_file_checksum_crc32c has returned to the caller.
ReturnFile ==
  /\ pc = "done"
  /\ pc' = "calls"
  /\ UNCHANGED <<otherVars, tables, crc, addr, callVars, fileVars>>

NextCalls ==
  Probe \/ CallString \/ StartFile \/ FirstRead \/ LoopRead \/ ReturnFile

SpecCalls == InitCalls /\ [][NextCalls]_vars

(***************************************************************************)
(* Two threads, each inside one call of get_checksum_crc32c on a buffer of *)
(* its own.  A step of a thread is one pass through a loop body, one case  *)
(* of the switch, or one loop exit; the scheduler interleaves the steps of *)
(* the two threads in any order.  The tables are the only memory both      *)
(* threads touch.  Every fold of bytes into crc is noted in the thread's   *)
(* `folds': the instruction or table step, the offset of its first byte    *)
(* from the start of the buffer, and the number of bytes it takes.         *)
(***************************************************************************)

\* Longest buffer of the first thread, and the length of the second
\* thread's buffer.
MaxThreadLen == 17

MaxOtherLen == 6

ThreadIds == {1, 2}

\* The buffer, string and file calls of the other specifications are not
\* running.
NoBufferCall ==
  /\ icrc = INITIAL_CRC /\ mem = <<>> /\ pos = 0 /\ split = FALSE
  /\ results = [sw |-> NoValue, hw |-> NoValue, str |-> NoValue]
  /\ probe = NoProbe /\ addr = 0 /\ crc = INITIAL_CRC

\* The arguments of a call and its locals on entry.
NewCall(c, m, a, h) ==
  [icrc |-> c, mem |-> m, addr |-> a, have_hw_crc32 |-> h,
   size |-> Len(m), crc |-> NoValue, pos |-> 0, i |-> 0,
   initial_bytes |-> 0, running_length |-> 0, end_bytes |-> 0,
   at |-> "entry", folds |-> <<>>, lookups |-> {}, ret |-> NoValue,
   overlapped |-> FALSE]

InitThreads ==
  /\ tables = TableSet
  /\ pc = "threads"
  /\ NoBufferCall
  /\ NoFileCall
  /\ cpu = NoValue /\ detach = NoValue /\ gen = NoValue
  /\ \E n \in 0..MaxThreadLen, a \in 0..3, h1 \in {YES, NO}, h2 \in {YES, NO} :
       threads = <<NewCall(U32(\h1234, \hABCD), Digits(n), a, h1),
                   NewCall(INITIAL_CRC, Mixed(MaxOtherLen), 1, h2)>>

\* crc kept in one static variable, shared by every call.
CrcCellStatic(t) == 1

\* unsigned int crc = icrc; an automatic variable: every call has its own.
CrcCell(t) == t

\* One fold f applied to the running value acc, reading the buffer m.
ApplyFold(acc, m, f) ==
  CASE f.kind = "crc32si" -> builtin_ia32_crc32si(acc, Load32(m, f.at))
    [] f.kind = "crc32hi" -> builtin_ia32_crc32hi(acc, Load16(m, f.at))
    [] f.kind = "crc32qi" -> builtin_ia32_crc32qi(acc, Load8(m, f.at))
    [] f.kind = "bulk"    -> BulkStep(acc, m, f.at)
    [] OTHER              -> ByteStep(acc, Load8(m, f.at))

Fold(k, p, n) == [kind |-> k, at |-> p, len |-> n]

\* The bytes of fold f lie inside the buffer m.
Inside(f, m) == 0 <= f.at /\ f.at + f.len <= Len(m)

\* A read past the last byte of the buffer is undefined: the process is
\* stopped by a fault (<<>>), or the read yields the bytes that happen to
\* lie there (<<b>>: every one of them b).
BeyondBuffer == {<<>>, <<0>>, <<255>>}

\* The buffer m followed by what lies behind it, as far as one fold reaches.
Padded(m, g) == m \o [k \in 1..8 |-> g[1]]

\* The table indices that fold f computes from the running value acc.
TableIndices(acc, m, f) ==
  CASE f.kind = "byte" ->
         {LowByte(Xor(acc, CharToInt(Load8(m, f.at))))}
    [] f.kind = "bulk" ->
         LET c1    == Xor(acc, Load32(m, f.at))
             term2 == Shr16(c1)
             w2    == Load32(m, f.at + 4)
             t2b   == Shr16(w2)
         IN  {LowByte(c1), LowByte(Shr8(c1)),
              LowByte(term2), LowByte(Shr8(term2)),
              LowByte(w2), LowByte(Shr8(w2)),
              LowByte(t2b), LowByte(Shr8(t2b))}
    [] OTHER -> {}

\* The switch of the hardware path entered at case 2 for a remainder of
\* three: the 2-byte fold comes first and the third byte is left out.
HwCaseOfTwoFirst(rest) ==
  CASE rest = 3 -> "hw_case2"
    [] rest = 2 -> "hw_case2"
    [] rest = 1 -> "hw_case1"
    [] OTHER    -> "return"

\* switch (size) after size &= sizeof(uint32_t) - 1.
HwCaseOf(rest) ==
  CASE rest = 3 -> "hw_case3"
    [] rest = 2 -> "hw_case2"
    [] rest = 1 -> "hw_case1"
    [] OTHER    -> "return"

\* The step of a call whose locals are th and whose running value is c:
\* the locals after the step, and in `crc' the running value after it.
\* g is what a read past the end of the buffer does, should the step make
\* one.
CallStep(th, c, g) ==
  LET folded(f, next, to) ==
        IF ~Inside(f, th.mem) /\ g = <<>>
        THEN [th EXCEPT !.crc = c, !.folds = Append(th.folds, f),
                        !.at = "fault"]
        ELSE LET m == IF Inside(f, th.mem) THEN th.mem
                      ELSE Padded(th.mem, g)
             IN  [th EXCEPT !.crc = ApplyFold(c, m, f),
                            !.folds = Append(th.folds, f),
                            !.lookups = th.lookups \cup TableIndices(c, m, f),
                            !.pos = th.pos + next,
                            !.i = th.i + 1,
                            !.at = to]
  IN
  CASE th.at = "entry" ->
         IF th.have_hw_crc32 = YES
         THEN [th EXCEPT !.crc = th.icrc, !.i = 0, !.at = "hw_loop"]
         ELSE [th EXCEPT !.crc = th.icrc, !.i = 0, !.at = "sw_prologue",
                         !.initial_bytes = InitialBytes(th.addr, th.size)]
    [] th.at = "hw_loop" ->
         IF th.i < th.size \div 4
         THEN folded(Fold("crc32si", th.pos, 4), 4, "hw_loop")
         ELSE [th EXCEPT !.crc = c, !.size = th.size % 4,
                         !.at = HwCaseOf(th.size % 4)]
    [] th.at = "hw_case3" ->
         folded(Fold("crc32qi", th.pos, 1), 1, "hw_case2")
    [] th.at = "hw_case2" ->
         folded(Fold("crc32hi", th.pos, 2), 0, "return")
    [] th.at = "hw_case1" ->
         folded(Fold("crc32qi", th.pos, 1), 0, "return")
    [] th.at = "sw_prologue" ->
         IF th.i < th.initial_bytes
         THEN folded(Fold("byte", th.pos, 1), 1, "sw_prologue")
         ELSE LET rest == th.size - th.initial_bytes
              IN  [th EXCEPT !.crc = c, !.size = rest,
                             !.running_length = rest - (rest % 8),
                             !.end_bytes = rest % 8,
                             !.i = 0, !.at = "sw_bulk"]
    [] th.at = "sw_bulk" ->
         IF th.i < th.running_length \div 8
         THEN folded(Fold("bulk", th.pos, 8), 8, "sw_bulk")
         ELSE [th EXCEPT !.crc = c, !.i = 0, !.at = "sw_epilogue"]
    [] th.at = "sw_epilogue" ->
         IF th.i < th.end_bytes
         THEN folded(Fold("byte", th.pos, 1), 1, "sw_epilogue")
         ELSE [th EXCEPT !.crc = c, !.at = "return"]
    [] OTHER ->
         [th EXCEPT !.crc = c, !.ret = <<c>>, !.at = "returned"]

\* What the next step of the call can meet: nothing to choose while its
\* read stays inside the buffer, and each of BeyondBuffer once it does not.
Beyond(th, c) ==
  LET after == CallStep(th, c, <<0>>)
  IN  IF /\ Len(after.folds) > Len(th.folds)
         /\ ~Inside(after.folds[Len(after.folds)], th.mem)
      THEN BeyondBuffer
      ELSE {<<0>>}

Running(th) == th.at # "entry" /\ th.at # "returned"

\* Thread t takes its next step.  `overlapped' notes that it did so while
\* the other thread was inside its call.
ThreadStep(t) ==
  /\ pc = "threads"
  /\ threads[t].at # "returned"
  /\ \A u \in ThreadIds : threads[u].at # "fault"
  /\ \E g \in Beyond(threads[t], threads[CrcCell(t)].crc) :
       LET cell  == CrcCell(t)
           after == CallStep(threads[t], threads[cell].crc, g)
           other == 3 - t
       IN  threads' =
             [threads EXCEPT
                ![t] = [after EXCEPT
                          !.crc = threads[t].crc,
                          !.overlapped = threads[t].overlapped
                                           \/ Running(threads[other])],
                ![cell].crc = after.crc]
  /\ UNCHANGED <<tables, pc, crc, addr, callVars, fileVars, cpu, detach, gen>>

NextThreads == \E t \in ThreadIds : ThreadStep(t)

SpecThreads == InitThreads /\ [][NextThreads]_vars

(***************************************************************************)
(* detect_cpu_crc32().  The processor is described by whether CPUID knows  *)
(* leaf 1 and by the ECX value it reports for that leaf.                   *)
(***************************************************************************)

\* Number of calls of the detector the model follows.
MaxDetectCalls == 3

\* a & b on the low n bits of two non-negative integers.
RECURSIVE AndBits(_, _, _)
AndBits(a, b, n) ==
  IF n = 0 THEN 0
  ELSE ((a % 2) * (b % 2)) + 2 * AndBits(a \div 2, b \div 2, n - 1)

\* v & w on 32-bit values.
And(v, w) == [i \in 1..4 |-> AndBits(v[i], w[i], 8)]

\* <cpuid.h>: bit 19 and bit 20 of ECX of leaf 1.
bit_SSE4_1 == U32(\h0008, \h0000)

bit_SSE4_2 == U32(\h0010, \h0000)

\* The 32-bit word with exactly the bits of the set bs set.
RECURSIVE WordOfByte(_, _, _)
WordOfByte(bs, byte, bit) ==
  IF bit = 8 THEN 0
  ELSE (IF (8 * byte + bit) \in bs THEN 1 ELSE 0)
       + 2 * WordOfByte(bs, byte, bit + 1)

WordOf(bs) == [i \in 1..4 |-> WordOfByte(bs, i - 1, 0)]

\* ECX of leaf 1 on the processors considered: any combination of SSE3 (bit
\* 0), SSE4.1 (19), SSE4.2 (20), POPCNT (23), AVX (28) and bit 31.
FeatureWords == {WordOf(bs) : bs \in SUBSET {0, 19, 20, 23, 28, 31}}

\* __get_cpuid(1, &eax, &ebx, &ecx, &edx): ecx after the call.  The query
\* writes its outputs only when the processor knows the leaf; otherwise ecx
\* keeps the 0 it was initialised with.
get_cpuid_ecx(processor) ==
  IF processor.leaf1 THEN processor.ecx ELSE U32(\h0000, \h0000)

\* The detector testing the SSE4.1 bit.
detect_cpu_crc32_sse41(processor) ==
  IF And(get_cpuid_ecx(processor), bit_SSE4_1) # U32(\h0000, \h0000)
  THEN YES ELSE NO

\* int detect_cpu_crc32(void)
detect_cpu_crc32(processor) ==
  IF And(get_cpuid_ecx(processor), bit_SSE4_2) # U32(\h0000, \h0000)
  THEN YES ELSE NO

InitDetect ==
  /\ tables = TableSet
  /\ pc = "detect"
  /\ NoBufferCall
  /\ NoFileCall
  /\ threads = <<>> /\ detach = NoValue /\ gen = NoValue
  /\ \E known \in BOOLEAN, word \in FeatureWords :
       cpu = [leaf1 |-> known, ecx |-> word, returned |-> <<>>]

\* The program calls detect_cpu_crc32() once more and keeps the value.
DetectCpu ==
  /\ pc = "detect"
  /\ Len(cpu.returned) < MaxDetectCalls
  /\ cpu' = [cpu EXCEPT
               !.returned =
                 Append(cpu.returned,
                        detect_cpu_crc32([leaf1 |-> cpu.leaf1, ecx |-> cpu.ecx]))]
  /\ UNCHANGED <<tables, pc, crc, addr, callVars, fileVars, threads, detach,
                 gen>>

NextDetect == DetectCpu

SpecDetect == InitDetect /\ [][NextDetect]_vars

(***************************************************************************)
(* detach_afd_mon_status(), built with HAVE_MMAP.  The function stats the  *)
(* status file under the work directory and unmaps st_size bytes at        *)
(* p_afd_mon_status.  A step is one of its two system calls together with  *)
(* what the function does with the result.                                 *)
(***************************************************************************)

\* Largest size of the status file.
MaxStatusSize == 11

\* afddefs.h and mondefs.h: the two path components below the work
\* directory, each standing for its text.
FIFO_DIR == "FIFO_DIR"

AFD_MON_STATUS_FILE == "AFD_MON_STATUS_FILE"

\* Values of the global p_work_dir.
WorkDirs == {"/home/afd", "/var/afd", ""}

\* strcpy(afd_mon_status_file, p_work_dir); strcat(..., FIFO_DIR);
\* strcat(..., AFD_MON_STATUS_FILE): the path as its three parts.
StatusFilePath(p_work_dir) == <<p_work_dir, FIFO_DIR, AFD_MON_STATUS_FILE>>

\* stat(path, &stat_buf): 0 when the file is there, -1 when it is not.
StatResult(present) == IF present THEN 0 ELSE -1

\* munmap(addr, length): -1 for a length of 0 (EINVAL); otherwise 0, or -1
\* when the address is not one the kernel accepts.
MunmapResults(length) == IF length = 0 THEN {-1} ELSE {0, -1}

\* if (stat(afd_mon_status_file, &stat_buf) == -1)
StatFailed(r) == r = -1

\* The test of munmap()'s result for a positive value.
MunmapFailedAbove(r) == r > 0

\* if (munmap((void *)p_afd_mon_status, stat_buf.st_size) == -1)
MunmapFailed(r) == r = -1

InitDetach ==
  /\ tables = TableSet
  /\ pc = "detach"
  /\ NoBufferCall
  /\ NoFileCall
  /\ threads = <<>> /\ cpu = NoValue /\ gen = NoValue
  /\ \E dir \in WorkDirs, present \in BOOLEAN, size \in 0..MaxStatusSize :
       detach = [p_work_dir |-> dir, present |-> present, st_size |-> size,
                 at |-> "stat", path |-> NoValue,
                 stat_result |-> NoValue, munmap_result |-> NoValue,
                 unmapped |-> NoValue, logged |-> 0, ret |-> NoValue]

\* The path is built and stat() is called; on failure the function logs and
\* returns INCORRECT.
StatStatusFile ==
  /\ pc = "detach" /\ detach.at = "stat"
  /\ LET r == StatResult(detach.present)
     IN  detach' =
           IF StatFailed(r)
           THEN [detach EXCEPT !.path = StatusFilePath(detach.p_work_dir),
                               !.stat_result = <<r>>,
                               !.logged = detach.logged + 1,
                               !.ret = <<INCORRECT>>, !.at = "returned"]
           ELSE [detach EXCEPT !.path = StatusFilePath(detach.p_work_dir),
                               !.stat_result = <<r>>, !.at = "munmap"]
  /\ UNCHANGED <<tables, pc, crc, addr, callVars, fileVars, threads, cpu, gen>>

\* munmap() is called with the size stat() reported; on failure the function
\* logs and returns INCORRECT, otherwise it returns SUCCESS.
UnmapStatus ==
  /\ pc = "detach" /\ detach.at = "munmap"
  /\ \E r \in MunmapResults(detach.st_size) :
       detach' =
         IF MunmapFailed(r)
         THEN [detach EXCEPT !.munmap_result = <<r>>,
                             !.unmapped = <<detach.st_size>>,
                             !.logged = detach.logged + 1,
                             !.ret = <<INCORRECT>>, !.at = "returned"]
         ELSE [detach EXCEPT !.munmap_result = <<r>>,
                             !.unmapped = <<detach.st_size>>,
                             !.ret = <<SUCCESS>>, !.at = "returned"]
  /\ UNCHANGED <<tables, pc, crc, addr, callVars, fileVars, threads, cpu, gen>>

NextDetach == StatStatusFile \/ UnmapStatus

SpecDetach == InitDetach /\ [][NextDetach]_vars

(***************************************************************************)
(* The tables in use.  For one index the program looks an entry up in one  *)
(* of the eight arrays, or runs one bulk step and, on the same eight       *)
(* bytes, eight single-byte steps.                                         *)
(***************************************************************************)

\* 0x000000FF, the largest index into an array of 256 entries, and
\* sizeof(uint64_t) - 1, the last of the eight bytes of a group and of the
\* eight arrays, counted from 0.
MaxIndex == 255

LastOfEight == 7

\* The arrays in the order the source declares them: o32, o40, ..., o88.
TableAt(k) ==
  CASE k = 0 -> tables.o32 [] k = 1 -> tables.o40 [] k = 2 -> tables.o48
    [] k = 3 -> tables.o56 [] k = 4 -> tables.o64 [] k = 5 -> tables.o72
    [] k = 6 -> tables.o80 [] OTHER -> tables.o88

\* Eight bytes, all zero but the j-th (counted from 0, in address order),
\* which is b.
UnitGroup(j, b) == [i \in 1..8 |-> IF i = j + 1 THEN b ELSE 0]

\* Eight bytes that vary with b.
VariedGroup(b) == [i \in 1..8 |-> (b * (2 * i + 1) + i * i * 37 + 200) % 256]

InitTables ==
  /\ tables = TableSet
  /\ pc = "tables"
  /\ NoBufferCall
  /\ NoFileCall
  /\ threads = <<>> /\ cpu = NoValue /\ detach = NoValue
  /\ \E b \in 0..MaxIndex : gen = [index |-> b, op |-> NoValue]

\* crc_tableil8_oNN[index] is read.
LookUp ==
  /\ pc = "tables" /\ gen.op = NoValue
  /\ \E k \in 0..LastOfEight :
       gen' = [gen EXCEPT
                 !.op = [kind |-> "lookup", table |-> k,
                         value |-> TableAt(k)[gen.index + 1]]]
  /\ UNCHANGED <<tables, pc, crc, addr, callVars, fileVars, threads, cpu,
                 detach>>

\* One iteration of the bulk loop on a group of eight bytes, and the loop of
\* single-byte steps on the same bytes, both from the running value acc.
FoldGroup ==
  /\ pc = "tables" /\ gen.op = NoValue
  /\ \E acc \in {U32(\h0000, \h0000), INITIAL_CRC},
        g \in {UnitGroup(j, gen.index) : j \in 0..LastOfEight}
               \cup {VariedGroup(gen.index)} :
       gen' = [gen EXCEPT
                 !.op = [kind |-> "fold", acc |-> acc, group |-> g,
                         bulk |-> BulkStep(acc, g, 0),
                         bytes |-> ByteLoop(acc, g, 0, 0, 8)]]
  /\ UNCHANGED <<tables, pc, crc, addr, callVars, fileVars, threads, cpu,
                 detach>>

NextTables == LookUp \/ FoldGroup

SpecTables == InitTables /\ [][NextTables]_vars

(***************************************************************************)
(* Properties of the buffer and string calls (specification Spec).         *)
(***************************************************************************)

\* The byte-at-a-time fold
\*   crc = crc_tableil8_o32[(crc ^ byte) & 0xFF] ^ (crc >> 8)
\* over the first n bytes of m, from the table as the source lists it.
RECURSIVE ReferenceFold(_, _, _, _)
ReferenceFold(acc, m, i, n) ==
  IF Evaluated(acc) /\ i < n
  THEN ReferenceFold(
         Xor(crc_tableil8_o32[XorByteTable[acc[1]][m[i + 1]] + 1], Shr8(acc)),
         m, i + 1, n)
  ELSE acc

\* C1: chunking invariance on the software path.  Once the chunked fold has
\* consumed all of mem, whatever the chunk sizes (empty chunks included) and
\* whatever the alignment of each chunk, the running CRC equals the value of
\* one software call over the whole of mem, at every alignment of mem.
C1_ChunkingInvariance ==
  (pc = "chunks" /\ pos = Len(mem)) =>
    \A a \in 0..3 : crc = get_checksum_crc32c(icrc, mem, a, Len(mem), NO)

\* A fold of the longest buffer that was split into several calls.
C1_Witness ==
  /\ pc = "chunks" /\ pos = Len(mem) /\ Len(mem) = MaxLen /\ split
  /\ crc = get_checksum_crc32c(icrc, mem, 1, Len(mem), NO)

\* C2: hardware/software equivalence.  For the same icrc, buffer and size,
\* the call with have_hw_crc32 == YES returns the value of the software call.
C2_HardwareSoftwareEquivalence ==
  (results.sw # NoValue /\ results.hw # NoValue) => results.hw = results.sw

\* Both paths have run on a 15-byte buffer at an odd address: three whole
\* words and a 3-byte tail on the hardware path; prologue, one bulk group and
\* epilogue on the software path.
C2_Witness ==
  /\ results.sw # NoValue /\ results.hw # NoValue
  /\ Len(mem) = 15 /\ addr = 1 /\ mem[1] >= 128
  /\ results.hw = results.sw

\* C3 as stated: from 0xFFFFFFFF the software path returns the published
\* CRC-32C check values 0x00000000 (no bytes), 0x527D5351 (the byte 0x00) and
\* 0xE3069283 ("123456789").
C3_PublishedValues ==
  (results.sw # NoValue /\ icrc = U32(\hFFFF, \hFFFF)) =>
    /\ mem = <<>> => results.sw = U32(\h0000, \h0000)
    /\ mem = <<0>> => results.sw = U32(\h527D, \h5351)
    /\ mem = Digits(9) => results.sw = U32(\hE306, \h9283)

\* C3, amended: the function returns the running register without the final
\* inversion of the published definition, so from 0xFFFFFFFF it returns the
\* bitwise complements 0xFFFFFFFF, 0xAD82ACAE and 0x1CF96D7C.
C3_RunningRegisterValues ==
  (results.sw # NoValue /\ icrc = U32(\hFFFF, \hFFFF)) =>
    /\ mem = <<>> => results.sw = U32(\hFFFF, \hFFFF)
    /\ mem = <<0>> => results.sw = U32(\hAD82, \hACAE)
    /\ mem = Digits(9) => results.sw = U32(\h1CF9, \h6D7C)

\* The software call on "123456789" from 0xFFFFFFFF has returned.
C3_Witness ==
  /\ results.sw = U32(\h1CF9, \h6D7C)
  /\ icrc = U32(\hFFFF, \hFFFF) /\ mem = Digits(9)

\* C4: the software path equals the byte-at-a-time reference fold over all
\* bytes of mem, for every starting CRC, alignment and length.
C4_SoftwareEqualsReference ==
  results.sw # NoValue => results.sw = ReferenceFold(icrc, mem, 0, Len(mem))

\* A 17-byte buffer at address 1 mod 4: a 3-byte prologue, one bulk group
\* and a 6-byte epilogue.
C4_Witness ==
  /\ results.sw # NoValue /\ Len(mem) = 17 /\ addr = 1
  /\ InitialBytes(addr, Len(mem)) = 3
  /\ results.sw = ReferenceFold(icrc, mem, 0, 17)

\* The bytes of a NUL-terminated string before its terminator.
RECURSIVE BeforeTerminator(_)
BeforeTerminator(s) ==
  IF s = <<>> \/ Head(s) = 0 THEN <<>>
  ELSE <<Head(s)>> \o BeforeTerminator(Tail(s))

\* C8: the string adapter returns the checksum, from INITIAL_CRC, of exactly
\* the bytes before the terminator; for the empty string that is the
\* checksum of a zero-length buffer.
C8_StringAdapter ==
  results.str # NoValue =>
    LET text == BeforeTerminator(mem \o <<0>>)
    IN  /\ results.str[2] =
             get_checksum_crc32c(INITIAL_CRC, text, addr, Len(text),
                                 results.str[1])
        /\ text = <<>> =>
             results.str[2] =
               get_checksum_crc32c(INITIAL_CRC, <<>>, addr, 0, results.str[1])

\* The adapter has run on a string of MaxLen bytes, none of them zero.
C8_Witness ==
  /\ results.str # NoValue
  /\ BeforeTerminator(mem \o <<0>>) = mem /\ Len(mem) = MaxLen

(***************************************************************************)
(* Properties of the file adapter (specification SpecFile).                *)
(***************************************************************************)

\* Some read() of the call returned -1; no read follows one (C6), so it is
\* the latest.
Failed == last_read # NoValue /\ last_read.returned = -1

\* The latest read() returned as many bytes as it could: the number
\* requested, or all that was left of the file.
LastReadFull ==
  /\ last_read # NoValue
  /\ last_read.returned = Min(last_read.requested, last_read.left)

\* The latest read() returned fewer bytes than requested, 0 included.
ShortRead ==
  /\ last_read # NoValue
  /\ 0 <= last_read.returned /\ last_read.returned < last_read.requested

\* C5: file adapter end to end.  With offset 0, buf_size >= 1, no failing
\* read and every read returning min(requested, remaining), the function
\* returns SUCCESS and *crc is the value of one in-memory call over the whole
\* file from INITIAL_CRC.  (A read that is not the last returned exactly the
\* bytes requested, so it is the last read that decides whether all were
\* full.)
C5_FileEndToEnd ==
  (pc = "done" /\ offset = 0 /\ buf_size >= 1 /\ ~Failed /\ LastReadFull) =>
    /\ ret = <<SUCCESS>>
    /\ \A a \in 0..3 :
         crc = get_checksum_crc32c(INITIAL_CRC, file, a, Len(file), have_hw)

\* A file of exactly buf_size bytes, long enough for a bulk group: the first
\* read fills the buffer, the second returns 0.
C5_Witness ==
  /\ pc = "done" /\ ret = <<SUCCESS>> /\ offset = 0
  /\ Len(file) = buf_size /\ buf_size = MaxBuf
  /\ nreads = 2 /\ last_read.returned = 0

\* C6: a read() returning -1, the first or a later one, makes the function
\* return INCORRECT at once: it has returned, not with SUCCESS, and no
\* read() is issued after the failed one.
C6_ReadFailure ==
  /\ [](Failed => (pc = "done" /\ ret = <<INCORRECT>>))
  /\ [][Failed => nreads' = nreads]_vars

\* A read() of the loop has failed after two that succeeded.
C6_Witness == Failed /\ nreads = 3 /\ ret = <<INCORRECT>>

\* C7 as stated: with an empty file, whatever buf_size and offset, the
\* function returns SUCCESS with *crc = INITIAL_CRC.
C7_EmptyFileSeed ==
  (pc = "done" /\ file = <<>> /\ ~Failed) =>
    (ret = <<SUCCESS>> /\ crc = INITIAL_CRC)

\* C7, amended: with an empty file, buf_size >= 1 and no failing read, the
\* function returns SUCCESS after one read, or after two when offset equals
\* buf_size, and *crc is the checksum from INITIAL_CRC of the offset bytes
\* the buffer held before the call: INITIAL_CRC itself when offset is 0.
C7_EmptyFileFoldsOffsetBytes ==
  (file = <<>> /\ buf_size >= 1 /\ nreads >= 1 /\ ~Failed) =>
    /\ \/ pc = "done" /\ ret = <<SUCCESS>>
       \/ pc = "loop_read" /\ nreads = 1 /\ offset = buf_size
    /\ buffer = Digits(buf_size)
    /\ crc = get_checksum_crc32c(INITIAL_CRC, buffer, addr, offset, have_hw)
    /\ offset = 0 => crc = INITIAL_CRC

\* An empty file read at a non-zero offset: *crc is not the seed.
C7_Witness ==
  /\ pc = "done" /\ ret = <<SUCCESS>> /\ file = <<>> /\ ~Failed
  /\ offset = 3 /\ buf_size = 4 /\ crc # INITIAL_CRC

\* C9: end of file ends the call normally.  After a read() that returned a
\* non-negative count below the count requested the function has returned
\* SUCCESS, and a read() other than the first is issued only when the one
\* before it returned exactly the count requested.
C9_EndOfFileTerminates ==
  /\ [](ShortRead => (pc = "done" /\ ret = <<SUCCESS>>))
  /\ [][nreads' # nreads =>
          (nreads = 0 \/ last_read.returned = last_read.requested)]_vars

\* The third read() found the end of the file.
C9_Witness ==
  /\ ShortRead /\ last_read.returned = 0 /\ last_read.left = 0
  /\ nreads = 3 /\ buf_size >= 2 /\ pc = "done" /\ ret = <<SUCCESS>>

(***************************************************************************)
(* Properties of repeated calls (specification SpecCalls).                 *)
(***************************************************************************)

\* C10: no hidden state.  Every repetition of the buffer call returns what
\* the first one returned, at any address of mem and on either path, whatever
\* string and file adapter calls ran in between; and no step of any call
\* changes the eight tables or the buffer the call reads.
C10_NoHiddenState ==
  /\ [](probe.latest = probe.first)
  /\ [][tables' = tables /\ mem' = mem]_vars

\* The call was repeated after the string adapter and the file adapter had
\* both returned, the file adapter having left a checksum in *crc.
C10_Witness ==
  /\ probe.first # NoValue /\ probe.latest = probe.first
  /\ probe.after = {"string", "file"}
  /\ pc = "calls" /\ ret = <<SUCCESS>> /\ crc # StaleCrc /\ nreads >= 2

(***************************************************************************)
(* Properties of concurrent calls and of the folds of one call             *)
(* (specification SpecThreads).                                            *)
(***************************************************************************)

\* What the call of thread t returns when it runs alone.
Alone(t) ==
  get_checksum_crc32c(threads[t].icrc, threads[t].mem, threads[t].addr,
                      Len(threads[t].mem), threads[t].have_hw_crc32)

\* C11: concurrent use.  Two threads run get_checksum_crc32c at the same
\* time on buffers of their own, their steps interleaved in every order and
\* with no lock taken; each thread's call returns what it returns alone.
C11_ConcurrentCalls ==
  \A t \in ThreadIds :
    threads[t].at = "returned" => threads[t].ret = <<Alone(t)>>

\* Both calls have returned, each having taken steps while the other was
\* inside its call, the first on the software path over a bulk group and the
\* second on the hardware path.
C11_Witness ==
  /\ \A t \in ThreadIds : threads[t].at = "returned" /\ threads[t].overlapped
  /\ threads[1].have_hw_crc32 = NO /\ Len(threads[1].mem) = MaxThreadLen
  /\ threads[2].have_hw_crc32 = YES
  /\ threads[1].ret = <<Alone(1)>> /\ threads[2].ret = <<Alone(2)>>

\* The folds fs take the bytes 0..n-1 once each and in increasing order:
\* every fold starts where the one before it ended, the first at 0 and the
\* last ending at n.
RECURSIVE TakesEachByteOnce(_, _, _)
TakesEachByteOnce(fs, from, n) ==
  IF fs = <<>> THEN from = n
  ELSE Head(fs).at = from
       /\ TakesEachByteOnce(Tail(fs), from + Head(fs).len, n)

\* C17: hardware path byte consumption.  A call with have_hw_crc32 == YES
\* does floor(size / 4) 4-byte folds on consecutive words from the start of
\* the buffer, whatever its alignment, then for r = size mod 4: a 1-byte fold
\* followed by a 2-byte fold (r = 3), one 2-byte fold (r = 2), one 1-byte
\* fold (r = 1), nothing (r = 0); every byte is folded once, in order.
C17_HardwareFolds ==
  \A t \in ThreadIds :
    (threads[t].at = "returned" /\ threads[t].have_hw_crc32 = YES) =>
      LET size  == Len(threads[t].mem)
          words == size \div 4
          r     == size % 4
          tail  == CASE r = 3 -> <<Fold("crc32qi", 4 * words, 1),
                                   Fold("crc32hi", 4 * words + 1, 2)>>
                     [] r = 2 -> <<Fold("crc32hi", 4 * words, 2)>>
                     [] r = 1 -> <<Fold("crc32qi", 4 * words, 1)>>
                     [] OTHER -> <<>>
      IN  /\ threads[t].folds =
               [k \in 1..words |-> Fold("crc32si", 4 * (k - 1), 4)] \o tail
          /\ TakesEachByteOnce(threads[t].folds, 0, size)

\* A hardware call on 15 bytes at an odd address has returned: three word
\* folds, then the 1-byte and the 2-byte fold.
C17_Witness ==
  /\ threads[1].at = "returned" /\ threads[1].have_hw_crc32 = YES
  /\ Len(threads[1].mem) = 15 /\ threads[1].addr = 1
  /\ Len(threads[1].folds) = 5
  /\ threads[1].folds[4] = Fold("crc32qi", 12, 1)
  /\ threads[1].folds[5] = Fold("crc32hi", 13, 2)

\* C18: software path phase partition.  For a buffer at address a the
\* prologue takes p = min(size, (4 - a) mod 4) bytes, at most 3, the bulk
\* phase then runs floor((size - p) / 8) eight-byte groups and the epilogue
\* takes the remaining 0..7 bytes; the three counts add up to size and every
\* byte is taken once, in increasing order.
C18_SoftwarePhases ==
  \A t \in ThreadIds :
    (threads[t].at = "returned" /\ threads[t].have_hw_crc32 = NO) =>
      LET size     == Len(threads[t].mem)
          distance == (4 - (threads[t].addr % 4)) % 4
          p        == IF size < distance THEN size ELSE distance
          groups   == (size - p) \div 8
          e        == size - p - 8 * groups
      IN  /\ p <= 3 /\ 0 <= e /\ e <= 7 /\ p + 8 * groups + e = size
          /\ threads[t].folds =
               [k \in 1..p |-> Fold("byte", k - 1, 1)]
               \o [k \in 1..groups |-> Fold("bulk", p + 8 * (k - 1), 8)]
               \o [k \in 1..e |-> Fold("byte", p + 8 * groups + k - 1, 1)]
          /\ TakesEachByteOnce(threads[t].folds, 0, size)

\* A software call on 17 bytes at address 1 mod 4 has returned: 3 prologue
\* bytes, one group, 6 epilogue bytes.
C18_Witness ==
  /\ threads[1].at = "returned" /\ threads[1].have_hw_crc32 = NO
  /\ Len(threads[1].mem) = 17 /\ threads[1].addr = 1
  /\ Len(threads[1].folds) = 10
  /\ threads[1].folds[4] = Fold("bulk", 3, 8)
  /\ threads[1].folds[10] = Fold("byte", 16, 1)

(***************************************************************************)
(* Properties of logging (specification SpecCalls).                        *)
(***************************************************************************)

\* A value a checksum call returned is a 32-bit word, not a failure code.
IsWord(v) == v \in [1..4 -> 0..255]

\* C12: logging and failure are confined to the file adapter.  The count of
\* system_log() calls since the file adapter was last entered is 1 when a
\* read() of that call returned -1 and 0 otherwise, in every state: buffer
\* and string calls made before, between and after leave it alone, and end
\* of file and short reads are not logged.  Buffer and string calls return
\* a checksum, never a failure.
C12_LoggingConfined ==
  /\ logged = (IF Failed THEN 1 ELSE 0)
  /\ results.str # NoValue => IsWord(results.str[2])
  /\ probe.latest # NoValue => IsWord(probe.latest)

\* A file adapter call whose second read() failed has returned and logged
\* once; a string call and a buffer call have run, the latter after it.
C12_Witness ==
  /\ pc = "calls" /\ Failed /\ nreads = 2 /\ logged = 1
  /\ ret = <<INCORRECT>>
  /\ results.str # NoValue /\ "file" \in probe.after

(***************************************************************************)
(* Properties of the capability detector (specification SpecDetect).       *)
(***************************************************************************)

\* Bit 20 of a 32-bit word: bit 4 of its third byte.
Sse42BitSet(word) == (word[3] \div 16) % 2 = 1

\* C13: capability detector.  Every call of detect_cpu_crc32 returns YES
\* when the ECX that the leaf 1 query reports has the SSE4.2 bit (bit 20)
\* set and NO otherwise, a processor without leaf 1 reporting nothing; so
\* repeated calls return the same value.  A call changes nothing but the
\* caller's copy of the value returned.
C13_CapabilityDetector ==
  /\ [](cpu # NoValue =>
         \A k \in 1..Len(cpu.returned) :
           cpu.returned[k] =
             (IF cpu.leaf1 /\ Sse42BitSet(cpu.ecx) THEN YES ELSE NO))
  /\ [][/\ cpu'.leaf1 = cpu.leaf1 /\ cpu'.ecx = cpu.ecx
        /\ UNCHANGED <<tables, pc, crc, addr, callVars, fileVars, threads,
                       detach, gen>>]_vars

\* Three calls on a processor with SSE4.2 and without SSE4.1 and AVX.
C13_Witness ==
  /\ cpu # NoValue /\ cpu.leaf1 /\ cpu.ecx = WordOf({0, 20, 23})
  /\ cpu.returned = <<YES, YES, YES>>

(***************************************************************************)
(* Properties of detach_afd_mon_status (specification SpecDetach).         *)
(***************************************************************************)

\* C14: detach_afd_mon_status returns SUCCESS if and only if the stat of the
\* status file and the unmapping both succeed.  When the stat fails it
\* returns INCORRECT having logged once and without calling munmap; when the
\* unmapping fails it returns INCORRECT having logged once.
C14_DetachStatus ==
  (detach # NoValue /\ detach.at = "returned") =>
    /\ detach.ret = <<SUCCESS>> <=>
          (detach.stat_result = <<0>> /\ detach.munmap_result = <<0>>)
    /\ detach.stat_result = <<-1>> =>
          /\ detach.ret = <<INCORRECT>> /\ detach.logged = 1
          /\ detach.munmap_result = NoValue /\ detach.unmapped = NoValue
    /\ detach.munmap_result = <<-1>> =>
          detach.ret = <<INCORRECT>> /\ detach.logged = 1

\* The status file was found and the unmapping of its 8 bytes failed.
C14_Witness ==
  /\ detach # NoValue /\ detach.at = "returned"
  /\ detach.stat_result = <<0>> /\ detach.munmap_result = <<-1>>
  /\ detach.unmapped = <<8>> /\ detach.ret = <<INCORRECT>>
  /\ detach.logged = 1

(***************************************************************************)
(* Further properties of the file adapter (specification SpecFile).        *)
(***************************************************************************)

\* C15: number of reads.  With offset 0, buf_size >= 1, no failing read and
\* every read returning min(requested, remaining), a call on a file of L
\* bytes issues floor(L / buf_size) + 1 reads: two for a file of exactly
\* buf_size bytes, one for a shorter file.
C15_NumberOfReads ==
  (pc = "done" /\ offset = 0 /\ buf_size >= 1 /\ ~Failed /\ LastReadFull) =>
    /\ nreads = (Len(file) \div buf_size) + 1
    /\ Len(file) = buf_size => nreads = 2
    /\ Len(file) < buf_size => nreads = 1

\* Ten bytes read through a buffer of three: four reads, the last short.
C15_Witness ==
  /\ pc = "done" /\ offset = 0 /\ ~Failed /\ LastReadFull
  /\ Len(file) = 10 /\ buf_size = 3 /\ nreads = 4 /\ last_read.returned = 1

\* The n bytes of the file from the file position on.
Incoming(n) == SubSeq(file, fpos + 1, fpos + n)

\* C16: start offset handling.  The first read requests buf_size - offset
\* bytes and places them at buffer[offset..], leaving the bytes below; when
\* it returns n >= 0 the first fold starts from INITIAL_CRC and covers the
\* offset bytes the buffer held followed by the n bytes read.  Every later
\* read requests buf_size bytes, places them at buffer[0..] and folds just
\* the bytes it returned into the running value.
C16_StartOffset ==
  [][nreads' # nreads =>
       LET n == last_read'.returned
       IN  IF nreads = 0
           THEN /\ last_read'.requested = buf_size - offset
                /\ n >= 0 =>
                     /\ SubSeq(buffer', 1, offset) = SubSeq(buffer, 1, offset)
                     /\ SubSeq(buffer', offset + 1, offset + n) = Incoming(n)
                     /\ crc' = get_checksum_crc32c(
                                  INITIAL_CRC,
                                  SubSeq(buffer, 1, offset) \o Incoming(n),
                                  addr, offset + n, have_hw)
           ELSE /\ last_read'.requested = buf_size
                /\ n >= 0 =>
                     /\ SubSeq(buffer', 1, n) = Incoming(n)
                     /\ crc' = get_checksum_crc32c(crc, Incoming(n), addr, n,
                                                   have_hw)]_vars

\* A call with offset 3 and a buffer of 8 on a file of 7 bytes: the first
\* read brought 5 bytes, the second 2.
C16_Witness ==
  /\ pc = "done" /\ offset = 3 /\ buf_size = 8 /\ Len(file) = 7
  /\ nreads = 2 /\ last_read.requested = 8 /\ last_read.returned = 2
  /\ crc = get_checksum_crc32c(
             get_checksum_crc32c(INITIAL_CRC,
                                 Digits(3) \o SubSeq(file, 1, 5), addr, 8,
                                 have_hw),
             SubSeq(file, 6, 7), addr, 2, have_hw)

(***************************************************************************)
(* Properties of the tables (specification SpecTables).                    *)
(***************************************************************************)

\* A bulk step from a running value of 0 on a group whose only non-zero
\* byte is the j-th: every other lookup is of entry 0, which is 0 in all
\* eight arrays, so the value is the entry the step looks up for that byte.
UnitFold(j) ==
  /\ gen # NoValue /\ gen.op # NoValue /\ gen.op.kind = "fold"
  /\ gen.op.acc = U32(\h0000, \h0000)
  /\ gen.op.group = UnitGroup(j, gen.index)

\* What one single-byte step makes of the byte b from a running value of 0:
\* the entry for b of the array the prologue and the epilogue use.
SingleByteEntry(b) == ByteStep(U32(\h0000, \h0000), b)

\* C19 as stated: the array the bulk step indexes with the first-read byte
\* of a group is the array of the single-byte steps.
C19_FirstByteTable ==
  UnitFold(0) => gen.op.bulk = SingleByteEntry(gen.index)

\* C19, amended: the array of the single-byte steps, crc_tableil8_o32, is
\* the one the bulk step indexes with the last-read byte of a group, the
\* eighth in address order; the first-read byte indexes crc_tableil8_o88.
C19_LastByteTable ==
  /\ UnitFold(LastOfEight) =>
       /\ gen.op.bulk = SingleByteEntry(gen.index)
       /\ gen.op.bulk = crc_tableil8_o32[gen.index + 1]
  /\ UnitFold(0) => gen.op.bulk = crc_tableil8_o88[gen.index + 1]

\* The bulk step has run on seven zero bytes followed by 0xFF.
C19_Witness ==
  /\ UnitFold(LastOfEight) /\ gen.index = 255
  /\ gen.op.bulk = SingleByteEntry(255)

\* Entry i of the byte-wise table of the reflected polynomial 0x82F63B78:
\* eight shift and conditional-XOR steps on i.
PolynomialEntry(i) == Crc32Bits(<<i, 0, 0, 0>>, 8)

\* C20: lookup-table consistency.  Entry i of crc_tableil8_o32 is the result
\* of eight shift/conditional-XOR steps on i with the polynomial 0x82F63B78;
\* entry i of each later array, in the order o40, o48, ..., o88, is
\* (T_prev[i] >> 8) ^ crc_tableil8_o32[T_prev[i] & 0xFF] for the array
\* T_prev before it; and a bulk step on eight bytes gives what eight
\* single-byte steps on them give.
C20_TableConsistency ==
  (gen # NoValue /\ gen.op # NoValue) =>
    /\ (gen.op.kind = "lookup" /\ gen.op.table = 0) =>
         gen.op.value = PolynomialEntry(gen.index)
    /\ (gen.op.kind = "lookup" /\ gen.op.table > 0) =>
         LET prev == TableAt(gen.op.table - 1)[gen.index + 1]
         IN  gen.op.value =
               Xor(Shr8(prev), crc_tableil8_o32[LowByte(prev) + 1])
    /\ gen.op.kind = "fold" =>
         gen.op.bulk = ReferenceFold(gen.op.acc, gen.op.group, 0, 8)

\* The last entry of the last array has been looked up.
C20_Witness ==
  /\ gen # NoValue /\ gen.op # NoValue /\ gen.op.kind = "lookup"
  /\ gen.op.table = 7 /\ gen.index = 255
  /\ gen.op.value = crc_tableil8_o88[256]

(***************************************************************************)
(* Termination of the file adapter (specifications SpecFileFair and        *)
(* SpecFile).                                                              *)
(***************************************************************************)

\* C21: termination.  For every file, every buf_size >= 1, every offset in
\* 0..buf_size and every result of each read(), the call returns, and it
\* does so within floor(L / buf_size) + 2 reads: whenever a further read is
\* due, every read so far was full, the first having consumed
\* buf_size - offset bytes of the file and each loop read exactly buf_size.
C21_Termination ==
  /\ (buf_size >= 1) ~> (pc = "done")
  /\ []((buf_size >= 1 /\ pc = "loop_read") =>
          fpos = nreads * buf_size - offset)
  /\ [](buf_size >= 1 => nreads <= (Len(file) \div buf_size) + 2)

\* A call with offset = buf_size = 2 on ten bytes has returned after seven
\* reads: one of no bytes, five full ones and the one that met the end.
C21_Witness ==
  /\ pc = "done" /\ ~Failed /\ buf_size = 2 /\ offset = 2
  /\ Len(file) = 10 /\ nreads = 7 /\ fpos = 10

\* C22: zero-capacity buffer.  With buf_size = 0 and offset = 0, as long as
\* no read() has failed, every read() asked for 0 bytes and returned 0, which
\* equals buf_size: the call is in its loop, about to read again, has not
\* returned, and *crc stays INITIAL_CRC; a further read() that returns 0
\* leaves the call exactly where it was.
C22_ZeroCapacity ==
  /\ []((buf_size = 0 /\ offset = 0 /\ nreads >= 1 /\ ~Failed) =>
          /\ pc = "loop_read" /\ ret = NoValue
          /\ last_read.requested = 0
          /\ last_read.returned = buf_size
          /\ bytes_read = buf_size
          /\ crc = INITIAL_CRC)
  /\ [][(buf_size = 0 /\ pc = "loop_read" /\ last_read'.returned = 0) =>
          /\ pc' = "loop_read"
          /\ nreads' = nreads + 1
          /\ UNCHANGED <<crc, fpos, buffer, bytes_read, ret, logged>>]_vars

\* The call with an empty buffer on a file of five bytes has issued as many
\* reads as are followed here, none consumed a byte, and another is due.
C22_Witness ==
  /\ buf_size = 0 /\ offset = 0 /\ Len(file) = 5 /\ fpos = 0
  /\ nreads = MaxReads /\ pc = "loop_read" /\ ret = NoValue /\ ~Failed

(***************************************************************************)
(* Bounds of the buffer call's reads (specification SpecThreads).          *)
(***************************************************************************)

\* The number of bytes an access of each kind reads.
WidthOf(kind) ==
  CASE kind = "crc32si" -> 4
    [] kind = "crc32hi" -> 2
    [] kind = "bulk"    -> 8
    [] OTHER            -> 1

\* C23: bounds safety.  On both paths, for every size and every alignment
\* of the buffer, each 1-, 2-, 4- or 8-byte access starts at the first
\* unconsumed byte and ends at or before byte size - 1, so that at least as
\* many unconsumed bytes remain as it reads; no read ever leaves the
\* buffer, and every table index is in 0..255.
C23_BoundsSafety ==
  \A t \in ThreadIds :
    LET fs   == threads[t].folds
        size == Len(threads[t].mem)
    IN  /\ threads[t].at # "fault"
        /\ threads[t].lookups \subseteq 0..255
        /\ \A k \in 1..Len(fs) :
             /\ fs[k].len = WidthOf(fs[k].kind)
             /\ fs[k].at = IF k = 1 THEN 0 ELSE fs[k - 1].at + fs[k - 1].len
             /\ 0 <= fs[k].at
             /\ fs[k].at + fs[k].len - 1 <= size - 1
             /\ size - fs[k].at >= fs[k].len

\* A software call on 17 bytes at address 3 mod 4 has returned: its second
\* eight-byte group ended on the last byte of the buffer; and a hardware
\* call on 6 bytes has read its last two bytes as one 2-byte value.
C23_Witness ==
  /\ threads[1].at = "returned" /\ threads[1].have_hw_crc32 = NO
  /\ Len(threads[1].mem) = 17 /\ threads[1].addr = 3
  /\ threads[1].folds[Len(threads[1].folds)] = Fold("bulk", 9, 8)
  /\ threads[1].lookups # {}
  /\ threads[2].at = "returned" /\ threads[2].have_hw_crc32 = YES
  /\ threads[2].folds[Len(threads[2].folds)] = Fold("crc32hi", 4, 2)

(***************************************************************************)
(* The value left in *crc by a failed call (specification SpecFile).       *)
(***************************************************************************)

\* What the reads that succeeded have folded: the offset bytes the buffer
\* held before the call, then the bytes of the file up to the position
\* reached.
FoldedSoFar == SubSeq(Digits(buf_size), 1, offset) \o SubSeq(file, 1, fpos)

\* C24: *crc after INCORRECT.  When the first read() fails, *crc is
\* INITIAL_CRC; when a later read() fails, *crc is the checksum from
\* INITIAL_CRC of everything the reads before it folded, and the failing
\* read leaves it as it was: it is not set back to INITIAL_CRC or to the
\* caller's old value.
C24_CrcAfterIncorrect ==
  /\ [](Failed =>
          /\ ret = <<INCORRECT>>
          /\ nreads = 1 => (crc = INITIAL_CRC /\ fpos = 0)
          /\ nreads > 1 =>
               crc = ReferenceFold(INITIAL_CRC, FoldedSoFar, 0,
                                   Len(FoldedSoFar)))
  /\ [][(pc = "loop_read" /\ last_read'.returned = -1 /\ nreads' # nreads) =>
          (crc' = crc /\ ret' = <<INCORRECT>>)]_vars

\* The third read() failed after the first two had folded the two bytes the
\* buffer held and four bytes of the file: *crc holds their checksum.
C24_Witness ==
  /\ Failed /\ ret = <<INCORRECT>> /\ nreads = 3
  /\ offset = 2 /\ buf_size = 3 /\ fpos = 4 /\ Len(file) = 6
  /\ crc # INITIAL_CRC /\ crc # StaleCrc

====
